---- MODULE Spec2Model ----
(***************************************************************************)
(* Model of the Octopus IPC runtime: the bounded thread pool, the IPC      *)
(* framed message codec, the client receive path with its callback list,   *)
(* the server's client set with fan-out, and the meter receive handler.    *)
(* Each subsystem has its own specification over the shared variables; a   *)
(* specification leaves the variables of the other subsystems unchanged.   *)
(***************************************************************************)
EXTENDS Integers, Sequences, FiniteSets, TLC

VARIABLES
    \* OctopusThreadPool (octopus_ipc_threadpool.hpp:116-129)
    overflow_strategy,  \* overflow_strategy_
    max_queue_size,     \* max_queue_size_
    task_queue,         \* task_queue_ (front of the deque is index 1)
    workers,            \* one entry per thread of workers_: position in worker_loop and task held
    next_id,            \* number of submissions made so far (identity of the next task)
    ran,                \* ids of the tasks whose task() call returned
    dropped,            \* ids of the tasks dropped or rejected by a submission
    \* DataMessage codec
    ptl_pc,             \* "msg": a message to serialize; "buf": bytes to deserialize; "done"
    ptl_m,              \* the message handed to serializeMessage
    ptl_buf,            \* the bytes handed to deserializeMessage
    ptl_out,            \* the message deserializeMessage returned
    \* IPC client callback list (octopus_ipc_app_client.cpp:41-48)
    g_named_callbacks,  \* std::list<CallbackEntry>, in registration order
    cb_throws,          \* the callbacks that raise on every invocation
    cb_calls,           \* per callback, how often a pool task invoked it
    cb_failures,        \* per callback, how often an invocation raised
    \* IPC client receive loop (ipc_receive_response_loop)
    rx_pc,              \* "read": at get_response_with_epoll; "extract": in the extraction loop
    rx_pending,         \* bytes the server has written and the client has not read yet
    rx_buffer,          \* the rolling buffer
    rx_query_msg,       \* the loop's query_msg
    rx_dispatched,      \* the messages handed to ipc_invoke_notify_response, in order
    rx_reads,           \* number of successful reads so far
    rx_stream,          \* what the server wrote: junk bytes, complete messages, a message prefix
    \* IPC server (octopus_ipc_server.cpp)
    active_clients,     \* std::unordered_set<ClientInfo>, as a function fd -> [flag, ip]
    fd_table,           \* per descriptor number, the connection it refers to (0: closed)
    conns,              \* the accepted connections: descriptor, peer state, worker thread state
    fo_pc,              \* ipc_server_CarInforNotify_Callback: "idle" or "iter"
    fo_cmd,             \* its cmd_parameter
    fo_left,            \* the entries still ahead of its iterator
    fo_written,         \* the descriptors it has written to in this fan-out
    fo_always,          \* the descriptors subscribed at every moment of this fan-out
    fo_never,           \* the descriptors subscribed at no moment of this fan-out
    srv_epipe,          \* descriptors closed by send_buff after EPIPE/ECONNRESET, entry not removed since
    notify_count,       \* fan-outs started so far
    srv_reply,          \* the reply Socket::send_response wrote last: descriptor and bytes
    \* CarInfo task (octopus_carinfor.c)
    lt_meter,           \* the meter record
    ipc_task_msgs,      \* task messages posted to TASK_ID_IPC_SOCKET, in order
    meter_ackbuff,      \* the frame the receive handler last built into ackbuff
    ptl_no_ack,         \* whether the build defines CARINFOR_PTL_NO_ACK
    meter_last,         \* the frame the receive handler consumed last, and what it returned
    meter_frames,       \* frames the receive handler has consumed
    \* OctopusThreadPool shutdown (~OctopusThreadPool, worker_loop step by step)
    is_running,         \* is_running_
    queue_mutex,        \* holder of queue_mutex_ among the workers (0: free)
    dtor_pc,            \* position of the destructor: "live", "notify", "join", "done"
    \* IPC client connection (octopus_ipc_app_client.cpp)
    socket_running,     \* socket_running: controls the receive loop
    socket_client,      \* socket_client: descriptor number held, -1 for none
    cl_link,            \* what the held descriptor number refers to: "none", "open" (not connected), "connected", "dead" (peer gone), "closed"
    cl_pc,              \* position of ipc_receive_response_loop
    server_up,          \* the server socket accepts connections
    cl_outages,         \* environment faults so far: server outages and failed socket() calls
    cl_received,        \* successful reads on the current descriptor
    ds_pc,              \* the delayed-send task: "none", "delay", "wait", "done"
    waited_ms,          \* its waited_ms
    ds_result,          \* "none", "dropped", or what the descriptor was when send_query was called
    \* IPC server process (main, ipc_server_signal_handler)
    listen_open,        \* socket_fd_server is open
    srv_exit_status,    \* exit status of the server process, -1 while it runs
    tm_running,         \* the task manager runs
    tm_stop_loaded,     \* otsm_taskManagerStateStopRunning was resolved from libOTSM.so
    \* IPC client shutdown (ipc_signal_handler, ipc_exit_cleanup)
    cleanup_runs,       \* completed runs of ipc_exit_cleanup
    cu_pc,              \* the running ipc_exit_cleanup: "idle" (none), "join" (socket closed, at the join)
    cu_close_log,       \* per run, the descriptor number it passed to close_socket and what that number referred to
    receiver_joined,    \* ipc_receiver_thread has been joined
    \* OctopusMessageBus (octopus_message_bus.cpp)
    subscribers_,       \* subscribers_: per group, the tokens subscribed (a callback is named by its token)
    messageQueue_,      \* messageQueue_: published messages not yet taken by a dispatcher
    bus_disp,           \* the dispatcher threads: pc "wait" or "loop", the message taken, the subscribers still to enqueue
    bus_published,      \* messages published so far
    bus_calls,          \* per token, how often a pool worker invoked its callback
    bus_last,           \* per token and dispatcher, the latest-published message the callback was invoked for
    bus_inverted,       \* a callback was invoked for a message after being invoked for a later one of the same dispatcher
    \* IPC client callback registry: a registration undone at once
    reg_pc,             \* "idle", "registered" (ipc_register_socket_callback has returned), "done" (ipc_unregister_socket_callback has returned)
    reg_prev,           \* g_named_callbacks before the registration
    reg_cb,             \* the callback passed to both calls (0: a null pointer)
    \* Vehicle model records and their readers (octopus_carinfor.c, octopus_ipc_server.cpp:666-731)
    lt_indicator,       \* the indicator record: one bit per lamp or fault
    lt_drivinfo,        \* the drivetrain record: gear and driveMode
    lt_sif,             \* the decoded SIF frame, the fields the task reads back
    mdl_prog,           \* the statements the callback running on the task-manager thread has still to execute
    mdl_frame,          \* the frame the running receive handler was called with
    mdl_runs,           \* callbacks of the CarInfo task started so far
    ptl_task_msgs,      \* task messages posted to TASK_ID_PTL, in order
    build_sif,          \* the build defines TASK_MANAGER_STATE_MACHINE_SIF
    build_mcu,          \* the build defines TASK_MANAGER_STATE_MACHINE_MCU
    rd_cmd,             \* the snapshot command a connection worker is serving, 0 for none
    rd_left,            \* the fields its copy out of the record has still to read
    rd_copy,            \* the fields copied so far
    rd_done,            \* the completed copies, in order: command and bytes
    mdl_complete,       \* per record, the values it had between two callbacks
    mdl_dirty,          \* records written since the IPC task was last told about them
    \* Task manager loop and the CarInfo task lifecycle (octopus.c, octopus_carinfor.c:120-196)
    car_state,          \* lifecycle state of TASK_ID_CAR_INFOR
    car_self,           \* the last OTMS call the task made on itself: callback, state before, state set
    ptl_modules,        \* frame types with handlers registered at the PTL
    ptl_running,        \* the PTL running set
    stop_thread,        \* stop_thread
    loop_pc,            \* TaskManagerStateEventLoop: "created", "top" (at the while test), "run", "sleep", "exited"
    stop_requested,     \* TaskManagerStateStopRunning was called
    stop_cb_since,      \* a stop callback was invoked since TaskManagerStateStopRunning was called
    car_boots,          \* times the task was put back to Init
    \* OctopusMessageBus subscriptions (octopus_message_bus.cpp:36-61)
    nextToken_,         \* nextToken_
    \* Socket::send_buff under server_mutex (octopus_ipc_socket.cpp:228-266)
    server_mutex,       \* 0 when free, else the sending thread that holds it
    sb,                 \* per sending thread: pc, client_fd, length, total_sent, ret
    peer_rx,            \* per descriptor: "reading", "stalled" (EAGAIN), "closed" (EPIPE), "bad" (closed here)
    \* SerialPort (octopus_serialport.cpp)
    isRunning,          \* the running flag of the serial transport
    serial_open,        \* serialFd and epollFd are open
    rl_pc,              \* readLoop: "none", "head", "wait", "read", "exited"
    cp_pc,              \* closePort: "idle", "join", "done"
    ser_pending,        \* bytes that arrived on the port and are not read yet
    ser_sent,           \* bytes the device has sent so far
    ser_calls,          \* sizes of the reads handed to dataCallback
    \* client API frames on the wire to a connection worker
    wr_sent,            \* what the client API wrote: call name and frame bytes, in order
    wr_stream,          \* bytes written by the client and not yet read by the server
    wr_handled,         \* messages the connection worker dispatched to a group handler
    wr_flag,            \* the subscription flag of this client in active_clients
    \* client extraction loop (octopus_ipc_app_client.cpp:477-489)
    rx_iter             \* parity of the iterations the extraction loop has made

poolVars == <<overflow_strategy, max_queue_size, task_queue, workers, next_id, ran, dropped>>
ptlVars == <<ptl_pc, ptl_m, ptl_buf, ptl_out>>
cbVars == <<g_named_callbacks, cb_throws, cb_calls, cb_failures>>
rxVars == <<rx_pc, rx_pending, rx_buffer, rx_query_msg, rx_dispatched, rx_reads, rx_stream>>
srvVars == <<active_clients, fd_table, conns, fo_pc, fo_cmd, fo_left, fo_written, fo_always,
             fo_never, srv_epipe, notify_count, srv_reply>>
carVars == <<lt_meter, ipc_task_msgs, meter_ackbuff, ptl_no_ack, meter_last, meter_frames>>
shutVars == <<is_running, queue_mutex, dtor_pc>>
dsVars == <<ds_pc, waited_ms, ds_result>>
cliVars == <<socket_running, socket_client, cl_link, cl_pc, server_up, cl_outages, cl_received,
             ds_pc, waited_ms, ds_result>>
sigVars == <<listen_open, srv_exit_status, tm_running, tm_stop_loaded>>
cuVars == <<cleanup_runs, cu_pc, cu_close_log, receiver_joined>>
busVars == <<subscribers_, messageQueue_, bus_disp, bus_published, bus_calls, bus_last, bus_inverted>>
regVars == <<reg_pc, reg_prev, reg_cb>>
mdlVars == <<lt_indicator, lt_drivinfo, lt_sif, mdl_prog, mdl_frame, mdl_runs, ptl_task_msgs, build_sif, build_mcu, rd_cmd, rd_left, rd_copy, rd_done, mdl_complete, mdl_dirty>>
tskVars == <<car_state, car_self, ptl_modules, ptl_running, stop_thread, loop_pc, stop_requested, stop_cb_since, car_boots>>
subVars == <<nextToken_>>
sndVars == <<server_mutex, sb, peer_rx>>
serVars == <<isRunning, serial_open, rl_pc, cp_pc, ser_pending, ser_sent, ser_calls>>
wireVars == <<wr_sent, wr_stream, wr_handled, wr_flag>>
iterVars == <<rx_iter>>
vars == <<overflow_strategy, max_queue_size, task_queue, workers, next_id, ran, dropped,
          ptl_pc, ptl_m, ptl_buf, ptl_out,
          g_named_callbacks, cb_throws, cb_calls, cb_failures,
          rx_pc, rx_pending, rx_buffer, rx_query_msg, rx_dispatched, rx_reads, rx_stream,
          active_clients, fd_table, conns, fo_pc, fo_cmd, fo_left, fo_written, fo_always,
          fo_never, srv_epipe, notify_count, srv_reply,
          lt_meter, ipc_task_msgs, meter_ackbuff, ptl_no_ack, meter_last, meter_frames,
          is_running, queue_mutex, dtor_pc,
          socket_running, socket_client, cl_link, cl_pc, server_up, cl_outages, cl_received,
          ds_pc, waited_ms, ds_result,
          listen_open, srv_exit_status, tm_running, tm_stop_loaded,
          cleanup_runs, cu_pc, cu_close_log, receiver_joined,
          subscribers_, messageQueue_, bus_disp, bus_published, bus_calls, bus_last, bus_inverted,
          reg_pc, reg_prev, reg_cb,
          lt_indicator, lt_drivinfo, lt_sif, mdl_prog, mdl_frame, mdl_runs, ptl_task_msgs, build_sif, build_mcu, rd_cmd, rd_left, rd_copy, rd_done, mdl_complete, mdl_dirty,
          car_state, car_self, ptl_modules, ptl_running, stop_thread, loop_pc, stop_requested, stop_cb_since, car_boots,
          nextToken_,
          server_mutex, sb, peer_rx,
          isRunning, serial_open, rl_pc, cp_pc, ser_pending, ser_sent, ser_calls,
          wr_sent, wr_stream, wr_handled, wr_flag,
          rx_iter>>

(***************************************************************************)
(* Bounds of the model                                                     *)
(***************************************************************************)
MaxQueue == 2       \* largest max_queue_size_ a pool is constructed with
MaxWorkers == 2     \* largest thread_count a pool is constructed with
MaxTasks == 4       \* submissions made to a pool in one run
MaxBufLen == 7      \* longest byte buffer handed to deserializeMessage
MaxDataLen == 2     \* longest payload of a message handed to serializeMessage
MaxDispatch == 4     \* messages the client dispatches in one run
MaxJunk == 22        \* most junk bytes in front of the first message
MaxMsgs == 2         \* most complete messages in one stream
MaxFds == 2          \* descriptor numbers the server can hand out to clients
MaxConns == 3        \* connections accepted in one run
MaxNotify == 2       \* model-change notifications in one run
MaxFrames == 2       \* frames the meter receive handler consumes in one run
MaxOutages == 2        \* server outages and failed socket() calls explored
MaxReceived == 2       \* successful reads counted per descriptor
MaxPublish == 4        \* messages published to the bus in one run
MaxSubscribers == 3    \* callbacks subscribed to the bus group
MaxRegistered == 2     \* entries in the callback list before a registration
MaxCallbacks == 2       \* callbacks of the CarInfo task entered in one run
MaxReads == 1           \* CAR requests a connection worker serves in one run
MaxBoots == 2           \* times the stopped CarInfo task is set up again
MaxSenders == 2          \* threads that call send_buff
MaxSendLen == 3          \* bytes of one serialized frame
MaxSerialBytes == 4      \* bytes the serial device sends in one run
MaxWrites == 2           \* frames the client API writes in one run
RxChunk == 8         \* size of a partial read

Min(a, b) == IF a < b THEN a ELSE b

(***************************************************************************)
(* OctopusThreadPool                                                       *)
(***************************************************************************)
TaskOverflowStrategy == {"DropOldest", "DropNewest", "Block"}

NoEntry == [func_name |-> "", cb |-> 0, failure_count |-> 0]
NoMsg == [header |-> 0, group |-> 0, msg |-> 0, length |-> 0, data |-> <<>>]
NoTask == [id |-> -1, kind |-> "none", entry |-> NoEntry, msg |-> NoMsg]

PlainTask(id, kind) == [id |-> id, kind |-> kind, entry |-> NoEntry, msg |-> NoMsg]

\* The queue and the dropped set after enqueue(task) / enqueue_delayed(task):
\* the switch on overflow_strategy_, executed under queue_mutex_.
\* Under Block the caller sleeps while the queue is full: not enabled.
EnqueueEnabled(q) == overflow_strategy = "Block" => Len(q) < max_queue_size

EnqueueDropsNothing(q, d, task) == [queue |-> Append(q, task), dropped |-> d]

EnqueueResult(q, d, task) ==
    CASE overflow_strategy = "DropOldest" ->
            IF Len(q) >= max_queue_size
            THEN [queue |-> Append(Tail(q), task), dropped |-> d \cup {Head(q).id}]
            ELSE [queue |-> Append(q, task), dropped |-> d]
      [] overflow_strategy = "DropNewest" ->
            IF Len(q) >= max_queue_size
            THEN [queue |-> q, dropped |-> d \cup {task.id}]
            ELSE [queue |-> Append(q, task), dropped |-> d]
      [] overflow_strategy = "Block" ->
            [queue |-> Append(q, task), dropped |-> d]

\* enqueue_with_result: the task is queued only while there is room, whatever
\* the strategy; otherwise an empty future is returned.
EnqueueWithResultResult(q, d, task) ==
    IF Len(q) < max_queue_size
    THEN [queue |-> Append(q, task), dropped |-> d]
    ELSE [queue |-> q, dropped |-> d \cup {task.id}]

enqueue ==
    /\ next_id < MaxTasks
    /\ EnqueueEnabled(task_queue)
    /\ LET r == EnqueueResult(task_queue, dropped, PlainTask(next_id, "plain"))
       IN /\ task_queue' = r.queue
          /\ dropped' = r.dropped
    /\ next_id' = next_id + 1
    /\ UNCHANGED <<overflow_strategy, max_queue_size, workers, ran>>

enqueue_delayed ==
    /\ next_id < MaxTasks
    /\ EnqueueEnabled(task_queue)
    /\ LET r == EnqueueResult(task_queue, dropped, PlainTask(next_id, "delayed"))
       IN /\ task_queue' = r.queue
          /\ dropped' = r.dropped
    /\ next_id' = next_id + 1
    /\ UNCHANGED <<overflow_strategy, max_queue_size, workers, ran>>

enqueue_with_result ==
    /\ next_id < MaxTasks
    /\ LET r == EnqueueWithResultResult(task_queue, dropped, PlainTask(next_id, "result"))
       IN /\ task_queue' = r.queue
          /\ dropped' = r.dropped
    /\ next_id' = next_id + 1
    /\ UNCHANGED <<overflow_strategy, max_queue_size, workers, ran>>

\* worker_loop, under queue_mutex_: the wait on task_cv_ returns with a
\* non-empty queue; the front task is moved out and popped.
WorkerTake(w) ==
    /\ workers[w].pc = "wait"
    /\ task_queue # <<>>
    /\ workers' = [workers EXCEPT ![w] = [pc |-> "run", task |-> Head(task_queue)]]
    /\ task_queue' = Tail(task_queue)
    /\ UNCHANGED <<overflow_strategy, max_queue_size, next_id, ran, dropped>>

\* The lambda ipc_invoke_notify_response queues for one callback: the callback
\* is invoked; if it raises, the failure_count of the task's own copy of the
\* entry is incremented under callback_mutex and, at FAILURE_THRESHOLD, every
\* entry of that name is removed from g_named_callbacks.
FAILURE_THRESHOLD == 3

ListAfterFailure(list, copy) ==
    IF copy.failure_count + 1 >= FAILURE_THRESHOLD
    THEN SelectSeq(list, LAMBDA e : e.func_name # copy.func_name)
    ELSE list

RunCallbackTask(t) ==
    /\ cb_calls' = [cb_calls EXCEPT ![t.entry.cb] = @ + 1]
    /\ IF t.entry.cb \in cb_throws
       THEN /\ cb_failures' = [cb_failures EXCEPT ![t.entry.cb] = @ + 1]
            /\ g_named_callbacks' = ListAfterFailure(g_named_callbacks, t.entry)
       ELSE UNCHANGED <<cb_failures, g_named_callbacks>>
    /\ UNCHANGED cb_throws

\* worker_loop, outside the lock: task() returns (or its exception is caught)
\* and the loop goes back to the wait.
WorkerFinish(w) ==
    /\ workers[w].pc = "run"
    /\ ran' = ran \cup {workers[w].task.id}
    /\ workers' = [workers EXCEPT ![w] = [pc |-> "wait", task |-> NoTask]]
    /\ IF workers[w].task.kind = "callback"
       THEN RunCallbackTask(workers[w].task)
       ELSE UNCHANGED cbVars
    /\ UNCHANGED <<overflow_strategy, max_queue_size, task_queue, next_id, dropped>>

PtlIdle ==
    /\ ptl_pc = "idle" /\ ptl_m = NoMsg /\ ptl_buf = <<>> /\ ptl_out = NoMsg

\* The pool alive: is_running_ set, the lock free, no destructor running.
ShutIdle ==
    /\ is_running = TRUE
    /\ queue_mutex = 0
    /\ dtor_pc = "live"

\* The client before ipc_app_main.
CliIdle ==
    /\ socket_running = TRUE
    /\ socket_client = -1
    /\ cl_link = "none"
    /\ cl_pc = "off"
    /\ server_up = FALSE
    /\ cl_outages = 0
    /\ cl_received = 0
    /\ ds_pc = "none"
    /\ waited_ms = 0
    /\ ds_result = "none"

\* The server process before main.
SigIdle ==
    /\ listen_open = FALSE
    /\ srv_exit_status = -1
    /\ tm_running = FALSE
    /\ tm_stop_loaded = FALSE

\* No client shutdown under way.
CuIdle ==
    /\ cleanup_runs = 0
    /\ cu_pc = "idle"
    /\ cu_close_log = <<>>
    /\ receiver_joined = FALSE

\* The bus before start().
BusIdle ==
    /\ subscribers_ = <<>>
    /\ messageQueue_ = <<>>
    /\ bus_disp = <<>>
    /\ bus_published = 0
    /\ bus_calls = <<>>
    /\ bus_last = <<>>
    /\ bus_inverted = FALSE

\* No registration under way.
RegIdle ==
    /\ reg_pc = "idle"
    /\ reg_prev = <<>>
    /\ reg_cb = 0

\* The vehicle model before the task manager runs, no reader.
MdlIdle ==
    /\ lt_indicator = <<>>
    /\ lt_drivinfo = <<>>
    /\ lt_sif = <<>>
    /\ mdl_prog = <<>>
    /\ mdl_frame = <<>>
    /\ mdl_runs = 0
    /\ ptl_task_msgs = <<>>
    /\ build_sif = FALSE
    /\ build_mcu = FALSE
    /\ rd_cmd = 0
    /\ rd_left = <<>>
    /\ rd_copy = <<>>
    /\ rd_done = <<>>
    /\ mdl_complete = <<>>
    /\ mdl_dirty = {}

\* The task manager before its thread is created.
TskIdle ==
    /\ car_state = "Invalid"
    /\ car_self = <<>>
    /\ ptl_modules = {}
    /\ ptl_running = {}
    /\ stop_thread = FALSE
    /\ loop_pc = "none"
    /\ stop_requested = FALSE
    /\ stop_cb_since = FALSE
    /\ car_boots = 0

\* No token handed out: nextToken_{1}.
SubIdle ==
    /\ nextToken_ = 1

\* No send under way.
SndIdle ==
    /\ server_mutex = 0
    /\ sb = <<>>
    /\ peer_rx = <<>>

\* Serial port not opened.
SerIdle ==
    /\ isRunning = FALSE
    /\ serial_open = FALSE
    /\ rl_pc = "none"
    /\ cp_pc = "idle"
    /\ ser_pending = 0
    /\ ser_sent = 0
    /\ ser_calls = <<>>

\* Nothing written by the client.
WireIdle ==
    /\ wr_sent = <<>>
    /\ wr_stream = <<>>
    /\ wr_handled = <<>>
    /\ wr_flag = FALSE

\* No iteration made.
IterIdle ==
    /\ rx_iter = FALSE

\* No callback registered.
CbIdle ==
    /\ g_named_callbacks = <<>>
    /\ cb_throws = {}
    /\ cb_calls = <<>>
    /\ cb_failures = <<>>

\* The client receive loop not started.
RxIdle ==
    /\ rx_pc = "idle"
    /\ rx_pending = <<>>
    /\ rx_buffer = <<>>
    /\ rx_query_msg = NoMsg
    /\ rx_dispatched = <<>>
    /\ rx_reads = 0
    /\ rx_stream = [junk |-> 0, msgs |-> <<>>, prefix |-> <<>>]

\* static carinfo_meter_t lt_meter = {0}
MeterZero ==
    [speed_real |-> 0, rpm |-> 0, speed |-> 0, soc |-> 0, voltage |-> 0, current |-> 0,
     voltageSystem |-> 0]

NoFrame == [frame_type |-> "", cmd |-> "", data |-> <<>>, handled |-> FALSE]

\* The CarInfo task before any frame.
CarIdle ==
    /\ lt_meter = MeterZero
    /\ ipc_task_msgs = <<>>
    /\ meter_ackbuff = <<>>
    /\ ptl_no_ack = FALSE
    /\ meter_last = NoFrame
    /\ meter_frames = 0

\* The server with no client and no fan-out.
SrvIdle ==
    /\ active_clients = <<>>
    /\ fd_table = [fd \in 1..MaxFds |-> 0]
    /\ conns = <<>>
    /\ fo_pc = "idle"
    /\ fo_cmd = 0
    /\ fo_left = {}
    /\ fo_written = {}
    /\ fo_always = {}
    /\ fo_never = {}
    /\ srv_epipe = {}
    /\ notify_count = 0
    /\ srv_reply = [fd |-> 0, bytes |-> <<>>]

\* The pool after its constructor: thread_count workers waiting, empty queue.
\* Every pool of the program is built with a positive queue size (4, 100).
PoolInit ==
    /\ overflow_strategy \in TaskOverflowStrategy
    /\ max_queue_size \in 1..MaxQueue
    /\ task_queue = <<>>
    /\ \E n \in 1..MaxWorkers : workers = [w \in 1..n |-> [pc |-> "wait", task |-> NoTask]]
    /\ next_id = 0
    /\ ran = {}
    /\ dropped = {}
    /\ PtlIdle /\ CbIdle /\ RxIdle /\ SrvIdle /\ CarIdle /\ ShutIdle /\ CliIdle /\ SigIdle /\ CuIdle /\ BusIdle /\ RegIdle /\ MdlIdle /\ TskIdle /\ SubIdle /\ SndIdle /\ SerIdle /\ WireIdle /\ IterIdle

PoolNext ==
    \/ enqueue /\ UNCHANGED <<ptlVars, cbVars, rxVars, srvVars, carVars, shutVars, cliVars, sigVars, cuVars, busVars, regVars, mdlVars, tskVars, subVars, sndVars, serVars, wireVars, iterVars>>
    \/ enqueue_delayed /\ UNCHANGED <<ptlVars, cbVars, rxVars, srvVars, carVars, shutVars, cliVars, sigVars, cuVars, busVars, regVars, mdlVars, tskVars, subVars, sndVars, serVars, wireVars, iterVars>>
    \/ enqueue_with_result /\ UNCHANGED <<ptlVars, cbVars, rxVars, srvVars, carVars, shutVars, cliVars, sigVars, cuVars, busVars, regVars, mdlVars, tskVars, subVars, sndVars, serVars, wireVars, iterVars>>
    \/ \E w \in DOMAIN workers : WorkerTake(w) /\ UNCHANGED <<ptlVars, cbVars, rxVars, srvVars, carVars, shutVars, cliVars, sigVars, cuVars, busVars, regVars, mdlVars, tskVars, subVars, sndVars, serVars, wireVars, iterVars>>
    \/ \E w \in DOMAIN workers : WorkerFinish(w) /\ UNCHANGED <<ptlVars, rxVars, srvVars, carVars, shutVars, cliVars, sigVars, cuVars, busVars, regVars, mdlVars, tskVars, subVars, sndVars, serVars, wireVars, iterVars>>

SpecPool == PoolInit /\ [][PoolNext]_vars

\* C1: under every overflow strategy and every interleaving of enqueue,
\* enqueue_delayed and enqueue_with_result with the workers' dequeues, the
\* task queue never holds more than max_queue_size tasks.
C1_QueueBound == Len(task_queue) <= max_queue_size

\* C1 witness: a full queue has just absorbed a further submission (a task was
\* dropped or rejected) and the queue is still at its bound.
C1_Witness == Len(task_queue) = max_queue_size /\ dropped # {}

(***************************************************************************)
(* Scenario S5: a pool with 1 worker and queue size 2 receives a long task *)
(* T0 and then the short tasks T1, T2, T3 (each through enqueue or, with a  *)
(* zero delay, enqueue_delayed).  Task ids are 0..3.  "Long": T0's task()  *)
(* does not return while the submitter still has a submission it can make. *)
(***************************************************************************)
S5Init ==
    /\ overflow_strategy \in TaskOverflowStrategy
    /\ max_queue_size = 2
    /\ task_queue = <<>>
    /\ workers = [w \in {1} |-> [pc |-> "wait", task |-> NoTask]]
    /\ next_id = 0
    /\ ran = {}
    /\ dropped = {}
    /\ PtlIdle /\ CbIdle /\ RxIdle /\ SrvIdle /\ CarIdle /\ ShutIdle /\ CliIdle /\ SigIdle /\ CuIdle /\ BusIdle /\ RegIdle /\ MdlIdle /\ TskIdle /\ SubIdle /\ SndIdle /\ SerIdle /\ WireIdle /\ IterIdle

S5Submit == next_id < 4 /\ enqueue

S5SubmitDelayed == next_id \in 1..3 /\ enqueue_delayed

S5Finish(w) ==
    /\ workers[w].task.id = 0 => (next_id = 4 \/ ~EnqueueEnabled(task_queue))
    /\ WorkerFinish(w)

S5Next ==
    \/ S5Submit /\ UNCHANGED <<ptlVars, cbVars, rxVars, srvVars, carVars, shutVars, cliVars, sigVars, cuVars, busVars, regVars, mdlVars, tskVars, subVars, sndVars, serVars, wireVars, iterVars>>
    \/ S5SubmitDelayed /\ UNCHANGED <<ptlVars, cbVars, rxVars, srvVars, carVars, shutVars, cliVars, sigVars, cuVars, busVars, regVars, mdlVars, tskVars, subVars, sndVars, serVars, wireVars, iterVars>>
    \/ \E w \in DOMAIN workers : WorkerTake(w) /\ UNCHANGED <<ptlVars, cbVars, rxVars, srvVars, carVars, shutVars, cliVars, sigVars, cuVars, busVars, regVars, mdlVars, tskVars, subVars, sndVars, serVars, wireVars, iterVars>>
    \/ \E w \in DOMAIN workers : S5Finish(w) /\ UNCHANGED <<ptlVars, rxVars, srvVars, carVars, shutVars, cliVars, sigVars, cuVars, busVars, regVars, mdlVars, tskVars, subVars, sndVars, serVars, wireVars, iterVars>>

SpecS5 == S5Init /\ [][S5Next]_vars

\* The scenario has ended: four submissions made, queue empty, no running task.
S5Done ==
    /\ next_id = 4
    /\ task_queue = <<>>
    /\ \A w \in DOMAIN workers : workers[w].pc = "wait"

\* C10 as claimed: with DropOldest, in every interleaving of the submitter
\* with the worker, T0 runs, T1 is the task dropped, T2 and T3 run, and the
\* pool ends with an empty queue and no running task.
C10_AsClaimed ==
    (overflow_strategy = "DropOldest" /\ S5Done) => (ran = {0, 2, 3} /\ dropped = {1})

\* C10 amended: with DropOldest, when the scenario has ended every task was
\* either run or dropped, T2 and T3 ran, and, unless T0 itself was dropped as
\* the oldest queued task (the worker had not dequeued it before T2 was
\* submitted), T0 ran and T1 is the one task dropped.
C10_Amended ==
    (overflow_strategy = "DropOldest" /\ S5Done) =>
        /\ ran \cup dropped = 0..3
        /\ ran \cap dropped = {}
        /\ {2, 3} \subseteq ran
        /\ 0 \notin dropped => (ran = {0, 2, 3} /\ dropped = {1})

\* C10 witness: the scenario ended with DropOldest, T0 having run and T1 dropped.
C10_Witness ==
    overflow_strategy = "DropOldest" /\ S5Done /\ ran = {0, 2, 3} /\ dropped = {1}

(***************************************************************************)
(* DataMessage: the IPC framed message and its codec                       *)
(* [Header:2][Group:1][Msg:1][Length:2, big-endian][Data:Length]           *)
(***************************************************************************)
HEADER == 42405     \* _HEADER_ = 0xA5A5

\* The byte values the inputs are drawn from: 0xA5 (both header bytes), 0 and 1.
Bytes == {0, 1, 165}

RECURSIVE ByteSeqs(_)
ByteSeqs(n) ==
    IF n = 0 THEN {<<>>}
    ELSE LET shorter == ByteSeqs(n - 1)
         IN shorter \cup {Append(b, x) : b \in {c \in shorter : Len(c) = n - 1}, x \in Bytes}

\* DataMessage::DataMessage(): header(_HEADER_), group(0), msg(0), length(0), no data
DefaultMessage == [header |-> HEADER, group |-> 0, msg |-> 0, length |-> 0, data |-> <<>>]

\* sizeof(header) + sizeof(group) + sizeof(msg) + sizeof(length)
get_base_length == 2 + 1 + 1 + 2

\* A serializer writing LENGTH as one byte (the older frame layout).
serializeMessageOneByteLength(m) ==
    <<m.header \div 256, m.header % 256, m.group, m.msg, m.length % 256>> \o m.data

serializeMessage(m) ==
    <<(m.header \div 256) % 256, m.header % 256, m.group, m.msg,
      (m.length \div 256) % 256, m.length % 256>> \o m.data

deserializeMessage(buffer) ==
    IF Len(buffer) < get_base_length
    THEN DefaultMessage
    ELSE LET length == buffer[5] * 256 + buffer[6]
         IN [header |-> buffer[1] * 256 + buffer[2],
             group  |-> buffer[3],
             msg    |-> buffer[4],
             length |-> length,
             data   |-> IF Len(buffer) >= get_base_length + length
                        THEN SubSeq(buffer, get_base_length + 1, get_base_length + length)
                        ELSE <<>>]

\* group and msg are uint8_t, so the last two conjuncts hold of every message.
isValid(m) == m.header = HEADER /\ m.length = Len(m.data) /\ m.group >= 0 /\ m.msg >= 0

\* The well-formed messages handed to serializeMessage: header 0xA5A5 and
\* LENGTH equal to the payload size.
WellFormedMessages ==
    {[header |-> HEADER, group |-> g, msg |-> i, length |-> Len(d), data |-> d] :
        g \in Bytes, i \in Bytes, d \in ByteSeqs(MaxDataLen)}

PoolIdle ==
    /\ overflow_strategy = "DropOldest"
    /\ max_queue_size = 1
    /\ task_queue = <<>>
    /\ workers = <<>>
    /\ next_id = 0
    /\ ran = {}
    /\ dropped = {}

\* Either a well-formed message about to be serialized, or raw bytes about to
\* be deserialized (as the server does with each read, octopus_ipc_server.cpp:476).
PtlInit ==
    /\ PoolIdle /\ CbIdle /\ RxIdle /\ SrvIdle /\ CarIdle /\ ShutIdle /\ CliIdle /\ SigIdle /\ CuIdle /\ BusIdle /\ RegIdle /\ MdlIdle /\ TskIdle /\ SubIdle /\ SndIdle /\ SerIdle /\ WireIdle /\ IterIdle
    /\ ptl_out = NoMsg
    /\ \/ ptl_pc = "msg" /\ ptl_m \in WellFormedMessages /\ ptl_buf = <<>>
       \/ ptl_pc = "buf" /\ ptl_m = NoMsg /\ ptl_buf \in ByteSeqs(MaxBufLen)

SerializeStep ==
    /\ ptl_pc = "msg"
    /\ ptl_buf' = serializeMessage(ptl_m)
    /\ ptl_pc' = "buf"
    /\ UNCHANGED <<ptl_m, ptl_out>>

DeserializeStep ==
    /\ ptl_pc = "buf"
    /\ ptl_out' = deserializeMessage(ptl_buf)
    /\ ptl_pc' = "done"
    /\ UNCHANGED <<ptl_m, ptl_buf>>

PtlNext ==
    \/ SerializeStep /\ UNCHANGED <<poolVars, cbVars, rxVars, srvVars, carVars, shutVars, cliVars, sigVars, cuVars, busVars, regVars, mdlVars, tskVars, subVars, sndVars, serVars, wireVars, iterVars>>
    \/ DeserializeStep /\ UNCHANGED <<poolVars, cbVars, rxVars, srvVars, carVars, shutVars, cliVars, sigVars, cuVars, busVars, regVars, mdlVars, tskVars, subVars, sndVars, serVars, wireVars, iterVars>>

SpecPtl == PtlInit /\ [][PtlNext]_vars

\* The raw-bytes input of a finished deserialization is erroneous: fewer than 6
\* bytes, a wrong header, or fewer payload bytes than LENGTH announces.
ErroneousInput(buffer) ==
    \/ Len(buffer) < 6
    \/ buffer[1] * 256 + buffer[2] # HEADER
    \/ Len(buffer) - 6 < buffer[5] * 256 + buffer[6]

\* C5 as claimed: deserializeMessage returns for every input and, for every
\* input with a wrong header, fewer than 6 bytes or fewer payload bytes than
\* LENGTH announces, the returned message fails isValid().
C5_AsClaimed ==
    (ptl_pc = "done" /\ ptl_m = NoMsg /\ ErroneousInput(ptl_buf)) => ~isValid(ptl_out)

ClientPoolQueueSize == 100

\* The callbacks (function pointers) and the names they are registered under.
Callbacks == {1, 2}
FuncNames == {"a", "b"}

\* CallbackEntry as ipc_register_socket_callback pushes it: failure_count = 0.
CallbackEntry(name, cb) == [func_name |-> name, cb |-> cb, failure_count |-> 0]

\* The callback lists a run starts with: up to two registrations of distinct
\* callbacks, under equal or different names.
CallbackLists ==
    {<<>>}
    \cup {<<CallbackEntry(n, c)>> : n \in FuncNames, c \in Callbacks}
    \cup {l \in {<<CallbackEntry(n1, c1), CallbackEntry(n2, c2)>> :
                    n1 \in FuncNames, n2 \in FuncNames,
                    c1 \in Callbacks, c2 \in Callbacks} : l[1].cb # l[2].cb}

\* The loop over active_callbacks: one pool task per entry, each holding its
\* own copy of the entry (make_shared<CallbackEntry>(entry)) and of the message.
RECURSIVE EnqueueAll(_, _, _, _, _)
EnqueueAll(q, d, entries, id, m) ==
    IF entries = <<>>
    THEN [queue |-> q, dropped |-> d]
    ELSE LET r == EnqueueResult(q, d, [id |-> id, kind |-> "callback",
                                       entry |-> Head(entries), msg |-> m])
         IN EnqueueAll(r.queue, r.dropped, Tail(entries), id + 1, m)

ipc_invoke_notify_response(m) ==
    LET r == EnqueueAll(task_queue, dropped, g_named_callbacks, next_id, m)
    IN /\ task_queue' = r.queue
       /\ dropped' = r.dropped
       /\ next_id' = next_id + Len(g_named_callbacks)
       /\ rx_dispatched' = Append(rx_dispatched, m)
       /\ UNCHANGED <<overflow_strategy, max_queue_size, workers, ran>>

\* The car-information frames the client receives in this model (the payload,
\* a copy of the record, shortened).
MsgCarMeter == [header |-> HEADER, group |-> 11, msg |-> 101, length |-> 1, data |-> <<1>>]
MsgCarIndicator == [header |-> HEADER, group |-> 11, msg |-> 100, length |-> 2, data |-> <<1, 0>>]

ClientPool(n) ==
    /\ overflow_strategy = "DropOldest"
    /\ max_queue_size = ClientPoolQueueSize
    /\ task_queue = <<>>
    /\ workers = [w \in 1..n |-> [pc |-> "wait", task |-> NoTask]]
    /\ next_id = 0
    /\ ran = {}
    /\ dropped = {}

CbInit ==
    /\ \E n \in 1..MaxWorkers : ClientPool(n)
    /\ g_named_callbacks \in CallbackLists
    /\ cb_throws \in SUBSET Callbacks
    /\ cb_calls = [c \in Callbacks |-> 0]
    /\ cb_failures = [c \in Callbacks |-> 0]
    /\ PtlIdle /\ RxIdle /\ SrvIdle /\ CarIdle /\ ShutIdle /\ CliIdle /\ SigIdle /\ CuIdle /\ BusIdle /\ RegIdle /\ MdlIdle /\ TskIdle /\ SubIdle /\ SndIdle /\ SerIdle /\ WireIdle /\ IterIdle

\* The receive loop has extracted one valid message and dispatches it.
CbReceive ==
    /\ Len(rx_dispatched) < MaxDispatch
    /\ ipc_invoke_notify_response(MsgCarMeter)
    /\ UNCHANGED <<rx_pc, rx_pending, rx_buffer, rx_query_msg, rx_reads, rx_stream>>

CbNext ==
    \/ CbReceive /\ UNCHANGED <<ptlVars, cbVars, srvVars, carVars, shutVars, cliVars, sigVars, cuVars, busVars, regVars, mdlVars, tskVars, subVars, sndVars, serVars, wireVars, iterVars>>
    \/ \E w \in DOMAIN workers : WorkerTake(w) /\ UNCHANGED <<ptlVars, cbVars, rxVars, srvVars, carVars, shutVars, cliVars, sigVars, cuVars, busVars, regVars, mdlVars, tskVars, subVars, sndVars, serVars, wireVars, iterVars>>
    \/ \E w \in DOMAIN workers : WorkerFinish(w) /\ UNCHANGED <<ptlVars, rxVars, srvVars, carVars, shutVars, cliVars, sigVars, cuVars, busVars, regVars, mdlVars, tskVars, subVars, sndVars, serVars, wireVars, iterVars>>

SpecCb == CbInit /\ [][CbNext]_vars

\* C2 as claimed: a registered callback that raises on every invocation is
\* evicted at the third failure: once its invocations have failed for three
\* dispatched messages, no entry of the callback list holds it any more.
C2_AsClaimed ==
    \A i \in DOMAIN g_named_callbacks :
        g_named_callbacks[i].cb \in cb_throws =>
            cb_failures[g_named_callbacks[i].cb] < FAILURE_THRESHOLD

\* The callbacks some entry of the list holds.
Registered(list) == {list[i].cb : i \in DOMAIN list}

\* C19 as claimed: the eviction of a failing callback removes that callback's
\* entry and no other: once a callback has failed FAILURE_THRESHOLD times it
\* is no longer registered, while every other callback that was being invoked
\* still is.
C19_AsClaimed ==
    \A c \in Callbacks :
        cb_failures[c] >= FAILURE_THRESHOLD =>
            /\ c \notin Registered(g_named_callbacks)
            /\ \A d \in Callbacks \ {c} :
                  cb_calls[d] > 0 => d \in Registered(g_named_callbacks)

(***************************************************************************)
(* IPC client: receive loop and frame extraction                           *)
(***************************************************************************)
\* constexpr size_t max_scan = 20
max_scan == 20

\* ipc_check_complete_data_packet(buffer, query_msg): both are passed by
\* reference; the result is the buffer as the call leaves it and the message
\* it returns.  query_msg.group = -1 and query_msg.msg = -1 store 255 in the
\* uint8_t fields and leave header, length and data as they were.
ipc_check_complete_data_packet(buffer, query_msg) ==
    LET reset == [query_msg EXCEPT !.group = 255, !.msg = 255]
        hits == {i \in 0..(max_scan - 1) :
                    /\ i + 1 < Len(buffer)
                    /\ buffer[i + 1] * 256 + buffer[i + 2] = HEADER}
    IN IF Len(buffer) < get_base_length
       THEN [buffer |-> buffer, msg |-> reset]
       ELSE IF hits = {}
       THEN [buffer |-> SubSeq(buffer, Min(Len(buffer), max_scan) + 1, Len(buffer)),
             msg |-> reset]
       ELSE LET i == CHOOSE h \in hits : \A g \in hits : h <= g
                aligned == SubSeq(buffer, i + 1, Len(buffer))
            IN IF Len(aligned) < get_base_length
               THEN [buffer |-> aligned, msg |-> reset]
               ELSE LET totalLength == get_base_length + aligned[5] * 256 + aligned[6]
                        m == deserializeMessage(aligned)
                    IN IF Len(aligned) < totalLength
                       THEN [buffer |-> aligned, msg |-> reset]
                       ELSE IF ~isValid(m)
                       THEN [buffer |-> aligned, msg |-> m]
                       ELSE [buffer |-> SubSeq(aligned, totalLength + 1, Len(aligned)),
                             msg |-> m]

\* What the server wrote: n junk bytes (zeros, so without a header), then
\* complete messages, then a proper prefix of one more message.
RxMessages == {MsgCarMeter, MsgCarIndicator}

RECURSIVE MsgSeqs(_)
MsgSeqs(n) ==
    IF n = 0 THEN {<<>>}
    ELSE LET shorter == MsgSeqs(n - 1)
         IN shorter \cup {Append(q, m) : q \in {c \in shorter : Len(c) = n - 1}, m \in RxMessages}

RECURSIVE SerializeAll(_)
SerializeAll(msgs) ==
    IF msgs = <<>> THEN <<>> ELSE serializeMessage(Head(msgs)) \o SerializeAll(Tail(msgs))

ProperPrefixes(bytes) == {SubSeq(bytes, 1, n) : n \in 0..(Len(bytes) - 1)}

StreamBytes(st) == [i \in 1..st.junk |-> 0] \o SerializeAll(st.msgs) \o st.prefix

RxStreams ==
    {[junk |-> j, msgs |-> ms, prefix |-> pf] :
        j \in 0..MaxJunk, ms \in MsgSeqs(MaxMsgs),
        pf \in ProperPrefixes(serializeMessage(MsgCarMeter))}

RxInit ==
    /\ ClientPool(1)
    /\ g_named_callbacks = <<CallbackEntry("a", 1)>>
    /\ cb_throws = {}
    /\ cb_calls = [c \in Callbacks |-> 0]
    /\ cb_failures = [c \in Callbacks |-> 0]
    /\ PtlIdle /\ SrvIdle /\ CarIdle /\ ShutIdle /\ CliIdle /\ SigIdle /\ CuIdle /\ BusIdle /\ RegIdle /\ MdlIdle /\ TskIdle /\ SubIdle /\ SndIdle /\ SerIdle /\ WireIdle /\ IterIdle
    /\ rx_stream \in RxStreams
    /\ rx_pending = StreamBytes(rx_stream)
    /\ rx_pc = "read"
    /\ rx_buffer = <<>>
    /\ rx_query_msg = NoMsg
    /\ rx_dispatched = <<>>
    /\ rx_reads = 0

\* get_response_with_epoll returned Success with n bytes: they are appended to
\* the rolling buffer and a fresh query_msg is constructed.
RxRead(n) ==
    /\ rx_pc = "read"
    /\ n \in 1..Len(rx_pending)
    /\ rx_buffer' = rx_buffer \o SubSeq(rx_pending, 1, n)
    /\ rx_pending' = SubSeq(rx_pending, n + 1, Len(rx_pending))
    /\ rx_query_msg' = DefaultMessage
    /\ rx_reads' = rx_reads + 1
    /\ rx_pc' = "extract"
    /\ UNCHANGED <<rx_dispatched, rx_stream>>

\* One evaluation of the extraction loop's condition and, if it holds, one
\* iteration of its body.
RxExtract ==
    /\ rx_pc = "extract"
    /\ IF Len(rx_buffer) >= get_base_length
       THEN LET r == ipc_check_complete_data_packet(rx_buffer, rx_query_msg)
            IN /\ rx_buffer' = r.buffer
               /\ rx_query_msg' = r.msg
               /\ IF isValid(r.msg)
                  THEN /\ Len(rx_dispatched) < MaxDispatch
                       /\ ipc_invoke_notify_response(r.msg)
                       /\ UNCHANGED rx_pc
                  ELSE /\ rx_pc' = "read"
                       /\ UNCHANGED <<poolVars, rx_dispatched>>
       ELSE /\ rx_pc' = "read"
            /\ UNCHANGED <<poolVars, rx_buffer, rx_query_msg, rx_dispatched>>
    /\ UNCHANGED <<rx_pending, rx_reads, rx_stream>>

RxNext ==
    \/ \E n \in {Len(rx_pending), RxChunk} : RxRead(n) /\ UNCHANGED <<poolVars, ptlVars, cbVars, srvVars, carVars, shutVars, cliVars, sigVars, cuVars, busVars, regVars, mdlVars, tskVars, subVars, sndVars, serVars, wireVars, iterVars>>
    \/ RxExtract /\ UNCHANGED <<ptlVars, cbVars, srvVars, carVars, shutVars, cliVars, sigVars, cuVars, busVars, regVars, mdlVars, tskVars, subVars, sndVars, serVars, wireVars, iterVars>>
    \/ \E w \in DOMAIN workers : WorkerTake(w) /\ UNCHANGED <<ptlVars, cbVars, rxVars, srvVars, carVars, shutVars, cliVars, sigVars, cuVars, busVars, regVars, mdlVars, tskVars, subVars, sndVars, serVars, wireVars, iterVars>>
    \/ \E w \in DOMAIN workers : WorkerFinish(w) /\ UNCHANGED <<ptlVars, rxVars, srvVars, carVars, shutVars, cliVars, sigVars, cuVars, busVars, regVars, mdlVars, tskVars, subVars, sndVars, serVars, wireVars, iterVars>>

SpecRx == RxInit /\ [][RxNext]_vars

IsPrefix(p, q) == Len(p) <= Len(q) /\ p = SubSeq(q, 1, Len(p))

\* The whole stream arrived in the first read.
OneRead == rx_reads = 1 /\ rx_pending = <<>>

\* C3 as claimed: when the rolling buffer holds at most 20 header-free junk
\* bytes, then k complete messages, then an incomplete prefix, the extraction
\* loop dispatches exactly those k messages, in order and once each, and
\* returns leaving exactly the incomplete prefix in the buffer.
C3_AsClaimed ==
    (OneRead /\ rx_stream.junk <= max_scan) =>
        /\ IsPrefix(rx_dispatched, rx_stream.msgs)
        /\ rx_pc = "read" => (rx_dispatched = rx_stream.msgs /\ rx_buffer = rx_stream.prefix)

\* C4 as claimed: when the scan window of the rolling buffer holds no header
\* (21 or more junk bytes), the scanned bytes are trimmed and no message is
\* dispatched: once the first max_scan bytes are gone, nothing was dispatched.
C4_AsClaimed ==
    (OneRead /\ rx_stream.junk > max_scan
             /\ Len(rx_buffer) = Len(StreamBytes(rx_stream)) - max_scan) =>
        rx_dispatched = <<>>

(***************************************************************************)
(* IPC server: client set, connection workers and fan-out                  *)
(***************************************************************************)
Fds == 1..MaxFds

MSG_GROUP_SET == 1
CMD_GET_INDICATOR_INFO == 100
CMD_GET_METER_INFO == 101
CMD_GET_DRIVINFO_INFO == 102

\* The notifications octopus_carinfor.c posts to the IPC task.
NotifyCmds == {CMD_GET_INDICATOR_INFO, CMD_GET_METER_INFO, CMD_GET_DRIVINFO_INFO}

Restrict(f, S) == [x \in S |-> f[x]]

Subscribed(clients) == {fd \in DOMAIN clients : clients[fd].flag}

\* ipc_server_add_client: unordered_set::insert keeps an existing element with
\* an equal key (ClientInfo compares and hashes by fd).
ipc_server_add_client(clients, fd, ip, flag) ==
    IF fd \in DOMAIN clients
    THEN clients
    ELSE [x \in DOMAIN clients \cup {fd} |->
            IF x = fd THEN [flag |-> flag, ip |-> ip] ELSE clients[x]]

ipc_server_remove_client(clients, fd) == Restrict(clients, DOMAIN clients \ {fd})

ipc_server_update_clientFreshEntry(clients, fd, new_flag) ==
    IF fd \in DOMAIN clients
    THEN [clients EXCEPT ![fd] = [flag |-> new_flag, ip |-> ""]]
    ELSE clients

\* ipc_server_update_client(fd, new_flag): erase the entry and insert a copy
\* with the new flag; nothing if no entry has this fd.
ipc_server_update_client(clients, fd, new_flag) ==
    IF fd \in DOMAIN clients
    THEN [clients EXCEPT ![fd].flag = new_flag]
    ELSE clients

\* ipc_server_notify_carInfor_to_client writes a frame for the three snapshot
\* commands and nothing for any other.
NotifyWrites(cmd) == cmd \in NotifyCmds

\* The loop body of ipc_server_CarInforNotify_Callback decides by client.flag.
FanoutSelects(flag, cmd) == flag /\ NotifyWrites(cmd)

\* Socket::send_buff on descriptor fd: "ok" when the descriptor is open and its
\* peer is connected, "epipe" (EPIPE/ECONNRESET: send_buff closes fd) when the
\* peer has closed, "error" (EBADF) when the descriptor is not open.
send_buff(fd) ==
    IF fd_table[fd] = 0 THEN "error"
    ELSE IF conns[fd_table[fd]].peer = "closed" THEN "epipe"
    ELSE "ok"

\* The fan-out iterates active_clients without clients_mutex, so an insert,
\* erase or update made by another thread while it runs is a data race: the
\* element may or may not be ahead of the iterator afterwards.
LeftAfterInsert(fd) ==
    IF fo_pc = "iter" THEN {fo_left, fo_left \cup {fd}} ELSE {fo_left}

LeftAfterErase(fd) ==
    IF fo_pc = "iter" THEN {fo_left, fo_left \ {fd}} ELSE {fo_left}

LeftAfterUpdate(fd) ==
    IF fo_pc = "iter" THEN {fo_left \ {fd}, fo_left \cup {fd}} ELSE {fo_left}

\* Bookkeeping of the running fan-out: who stayed subscribed, who never was.
TrackSubscribed(clients) ==
    IF fo_pc = "iter"
    THEN /\ fo_always' = fo_always \cap Subscribed(clients)
         /\ fo_never' = fo_never \ Subscribed(clients)
    ELSE UNCHANGED <<fo_always, fo_never>>

SrvInit ==
    /\ PoolIdle /\ PtlIdle /\ CbIdle /\ RxIdle /\ CarIdle /\ ShutIdle /\ CliIdle /\ SigIdle /\ CuIdle /\ BusIdle /\ RegIdle /\ MdlIdle /\ TskIdle /\ SubIdle /\ SndIdle /\ SerIdle /\ WireIdle /\ IterIdle
    /\ SrvIdle

\* main(): accept returns the lowest free descriptor number; the client is
\* added with flag false and a worker thread is started for it.
Accept ==
    /\ Len(conns) < MaxConns
    /\ \E fd \in Fds :
        /\ fd_table[fd] = 0
        /\ \A g \in Fds : fd_table[g] = 0 => fd <= g
        /\ fd_table' = [fd_table EXCEPT ![fd] = Len(conns) + 1]
        /\ conns' = Append(conns, [fd |-> fd, peer |-> "open", pc |-> "run"])
        /\ active_clients' = ipc_server_add_client(active_clients, fd, "", FALSE)
        /\ fo_left' \in (IF fd \in DOMAIN active_clients THEN {fo_left} ELSE LeftAfterInsert(fd))
        /\ TrackSubscribed(active_clients')
    /\ UNCHANGED <<fo_pc, fo_cmd, fo_written, srv_epipe, notify_count>>

\* The client process closes its end of connection c.
PeerClose(c) ==
    /\ conns[c].peer = "open"
    /\ conns' = [conns EXCEPT ![c].peer = "closed"]
    /\ UNCHANGED <<active_clients, fd_table, fo_pc, fo_cmd, fo_left, fo_written, fo_always,
                   fo_never, srv_epipe, notify_count>>

\* Worker c reads a SET / MSG_IPC_SOCKET_CONFIG_FLAG request {selector, on}
\* from its descriptor and handles it (ipc_server_handle_config): the flag of
\* the selected client is updated; the one-byte reply (MSG_GROUP_SET, not a
\* framed message) is written to the sender, whose end is open.
HandleSetFlag(c, selector, on) ==
    LET client_fd == conns[c].fd
        cfd == IF selector <= 0 THEN client_fd ELSE selector
    IN /\ conns[c].pc = "run"
       /\ fd_table[client_fd] # 0
       /\ conns[fd_table[client_fd]].peer = "open"
       /\ active_clients' = ipc_server_update_client(active_clients, cfd, on)
       /\ fo_left' \in (IF cfd \in DOMAIN active_clients THEN LeftAfterUpdate(cfd) ELSE {fo_left})
       /\ TrackSubscribed(active_clients')
       /\ srv_reply' = [fd |-> client_fd, bytes |-> <<MSG_GROUP_SET>>]
       /\ UNCHANGED <<fd_table, conns, fo_pc, fo_cmd, fo_written, srv_epipe, notify_count>>

\* Worker c finds its descriptor hung up or invalid (get_query returns
\* Disconnected) and leaves through cleanup: close(client_fd) and
\* ipc_server_remove_client(client_fd).
HandlerCleanup(c) ==
    LET client_fd == conns[c].fd
    IN /\ conns[c].pc = "run"
       /\ (IF fd_table[client_fd] = 0 THEN TRUE ELSE conns[fd_table[client_fd]].peer = "closed")
       /\ fd_table' = [fd_table EXCEPT ![client_fd] = 0]
       /\ conns' = [conns EXCEPT ![c].pc = "done"]
       /\ active_clients' = ipc_server_remove_client(active_clients, client_fd)
       /\ fo_left' \in (IF client_fd \in DOMAIN active_clients
                        THEN LeftAfterErase(client_fd) ELSE {fo_left})
       /\ srv_epipe' = srv_epipe \ {client_fd}
       /\ TrackSubscribed(active_clients')
       /\ UNCHANGED <<fo_pc, fo_cmd, fo_written, notify_count>>

\* The task manager calls ipc_server_CarInforNotify_Callback(cmd): the
\* iteration over active_clients begins.
NotifyBegin(cmd) ==
    /\ fo_pc = "idle"
    /\ notify_count < MaxNotify
    /\ fo_pc' = "iter"
    /\ fo_cmd' = cmd
    /\ fo_left' = DOMAIN active_clients
    /\ fo_written' = {}
    /\ fo_always' = Subscribed(active_clients)
    /\ fo_never' = Fds \ Subscribed(active_clients)
    /\ notify_count' = notify_count + 1
    /\ UNCHANGED <<active_clients, fd_table, conns, srv_epipe>>

\* One iteration of the loop, on the entry with descriptor fd.  An entry that
\* was erased under the iterator is read from freed memory: its flag is
\* whatever is found there (stale_flag).
FanoutStep(fd, stale_flag) ==
    LET flag == IF fd \in DOMAIN active_clients THEN active_clients[fd].flag ELSE stale_flag
    IN /\ fo_pc = "iter"
       /\ fd \in fo_left
       /\ fo_left' = fo_left \ {fd}
       /\ IF FanoutSelects(flag, fo_cmd)
          THEN /\ fo_written' = fo_written \cup {fd}
               /\ IF send_buff(fd) = "epipe"
                  THEN /\ fd_table' = [fd_table EXCEPT ![fd] = 0]
                       /\ srv_epipe' = srv_epipe \cup {fd}
                  ELSE UNCHANGED <<fd_table, srv_epipe>>
          ELSE UNCHANGED <<fo_written, fd_table, srv_epipe>>
       /\ UNCHANGED <<active_clients, conns, fo_pc, fo_cmd, fo_always, fo_never, notify_count>>

\* The iterator reaches the end.
FanoutEnd ==
    /\ fo_pc = "iter"
    /\ fo_left = {}
    /\ fo_pc' = "idle"
    /\ UNCHANGED <<active_clients, fd_table, conns, fo_cmd, fo_left, fo_written, fo_always,
                   fo_never, srv_epipe, notify_count>>

SrvNext ==
    \/ Accept /\ UNCHANGED srv_reply /\ UNCHANGED <<poolVars, ptlVars, cbVars, rxVars, carVars, shutVars, cliVars, sigVars, cuVars, busVars, regVars, mdlVars, tskVars, subVars, sndVars, serVars, wireVars, iterVars>>
    \/ \E c \in DOMAIN conns : PeerClose(c) /\ UNCHANGED srv_reply /\ UNCHANGED <<poolVars, ptlVars, cbVars, rxVars, carVars, shutVars, cliVars, sigVars, cuVars, busVars, regVars, mdlVars, tskVars, subVars, sndVars, serVars, wireVars, iterVars>>
    \/ \E c \in DOMAIN conns, selector \in {0} \cup Fds, on \in BOOLEAN :
            HandleSetFlag(c, selector, on) /\ UNCHANGED <<poolVars, ptlVars, cbVars, rxVars, carVars, shutVars, cliVars, sigVars, cuVars, busVars, regVars, mdlVars, tskVars, subVars, sndVars, serVars, wireVars, iterVars>>
    \/ \E c \in DOMAIN conns : HandlerCleanup(c) /\ UNCHANGED srv_reply /\ UNCHANGED <<poolVars, ptlVars, cbVars, rxVars, carVars, shutVars, cliVars, sigVars, cuVars, busVars, regVars, mdlVars, tskVars, subVars, sndVars, serVars, wireVars, iterVars>>
    \/ \E cmd \in NotifyCmds : NotifyBegin(cmd) /\ UNCHANGED srv_reply /\ UNCHANGED <<poolVars, ptlVars, cbVars, rxVars, carVars, shutVars, cliVars, sigVars, cuVars, busVars, regVars, mdlVars, tskVars, subVars, sndVars, serVars, wireVars, iterVars>>
    \/ \E fd \in Fds, stale_flag \in BOOLEAN :
            FanoutStep(fd, stale_flag) /\ UNCHANGED srv_reply /\ UNCHANGED <<poolVars, ptlVars, cbVars, rxVars, carVars, shutVars, cliVars, sigVars, cuVars, busVars, regVars, mdlVars, tskVars, subVars, sndVars, serVars, wireVars, iterVars>>
    \/ FanoutEnd /\ UNCHANGED srv_reply /\ UNCHANGED <<poolVars, ptlVars, cbVars, rxVars, carVars, shutVars, cliVars, sigVars, cuVars, busVars, regVars, mdlVars, tskVars, subVars, sndVars, serVars, wireVars, iterVars>>

SpecServer == SrvInit /\ [][SrvNext]_vars

\* C7 as claimed: a fan-out writes to exactly the subscribed clients: when it
\* has ended, every client that was subscribed throughout has been written to
\* and no client that was unsubscribed throughout has.
C7_AsClaimed ==
    (fo_pc = "idle" /\ notify_count > 0) =>
        /\ fo_always \subseteq fo_written
        /\ fo_written \cap fo_never = {}

\* C8 as claimed: a client whose write failed with EPIPE or ECONNRESET has its
\* descriptor closed and its entry removed from the client set.
C8_AsClaimed ==
    \A fd \in srv_epipe : fd \notin DOMAIN active_clients

\* C21 as claimed: active_clients is accessed only under clients_mutex, so
\* while the iteration of ipc_server_CarInforNotify_Callback is under way no
\* insert, erase or update of the accept loop or of a connection worker takes
\* place: the set is the same before and after every step made in between.
C21_AsClaimed ==
    [][(fo_pc = "iter" /\ fo_pc' = "iter") => active_clients' = active_clients]_vars

\* The connections that were accepted and whose worker has not ended.
LiveConns == {c \in DOMAIN conns : conns[c].pc = "run"}

\* C26 as claimed: the client set holds exactly one entry, keyed by its file
\* descriptor, for each accepted connection whose worker has not ended: every
\* such connection has its entry, and every entry belongs to one and only one
\* such connection.
C26_AsClaimed ==
    /\ \A c \in LiveConns : conns[c].fd \in DOMAIN active_clients
    /\ \A fd \in DOMAIN active_clients :
          Cardinality({c \in LiveConns : conns[c].fd = fd}) = 1

\* C37 as claimed: a connection worker's cleanup closes, and removes from the
\* client set, only its own connection's descriptor: when worker c ends, the
\* descriptor number it closes refers to connection c (or to nothing any
\* more), never to a newer connection that accept gave the same number.
C37_AsClaimed ==
    [][\A c \in DOMAIN conns :
          (conns[c].pc = "run" /\ conns'[c].pc = "done") => fd_table[conns[c].fd] \in {0, c}]_vars

(***************************************************************************)
(* CarInfo task: the meter receive handler                                 *)
(***************************************************************************)
\* MK_WORD(hi, lo): the 16-bit word of two bytes.
MK_WORD(hi, lo) == hi * 256 + lo

\* lt_meter.speed_real * 11 / 10, computed in int.
DisplayedSpeedUnscaled(speed_real) == speed_real

DisplayedSpeed(speed_real) == (speed_real * 11) \div 10

\* The store into lt_meter.speed.
StoreSpeed(v) == v

\* The payloads handed to the handler: d0..d5 over a few byte values, among
\* them 00 50 00 C8 and FF FF (the largest 16-bit speed).
MeterPayloads ==
    {<<d0, d1, 0, d3, 0, 0>> : d0 \in {0, 255}, d1 \in {0, 80, 255}, d3 \in {0, 200}}

FrameTypes == {"A2M_MOD_METER", "M2A_MOD_METER"}
MeterCmds == {"CMD_MODMETER_RPM_SPEED", "CMD_MODMETER_SOC", "CMD_OTHER"}

\* send_message(TASK_ID_IPC_SOCKET, MSG_DEVICE_CAR_INFOR_EVENT, param1, param2)
send_message(msgs, param1, param2) ==
    Append(msgs, [id |-> "MSG_DEVICE_CAR_INFOR_EVENT", param1 |-> param1, param2 |-> param2])

\* ptl_build_frame(A2M_MOD_METER, cmd, &tmp, 1, ackbuff) with tmp = 0x01,
\* unless the build defines CARINFOR_PTL_NO_ACK.
BuildAck(cmd) ==
    IF ptl_no_ack THEN meter_ackbuff ELSE <<"A2M_MOD_METER", cmd, 1>>

MeterInit ==
    /\ PoolIdle /\ PtlIdle /\ CbIdle /\ RxIdle /\ SrvIdle /\ ShutIdle /\ CliIdle /\ SigIdle /\ CuIdle /\ BusIdle /\ RegIdle /\ MdlIdle /\ TskIdle /\ SubIdle /\ SndIdle /\ SerIdle /\ WireIdle /\ IterIdle
    /\ lt_meter = MeterZero
    /\ ipc_task_msgs = <<>>
    /\ meter_ackbuff = <<>>
    /\ ptl_no_ack \in BOOLEAN
    /\ meter_last = NoFrame
    /\ meter_frames = 0

meter_module_receive_handler(frame_type, cmd, data) ==
    /\ meter_frames < MaxFrames
    /\ meter_frames' = meter_frames + 1
    /\ IF frame_type = "M2A_MOD_METER" /\ cmd = "CMD_MODMETER_RPM_SPEED"
       THEN LET speed_real == MK_WORD(data[1], data[2])
            IN /\ lt_meter' = [lt_meter EXCEPT !.speed_real = speed_real,
                                               !.rpm = MK_WORD(data[3], data[4]),
                                               !.speed = StoreSpeed(DisplayedSpeed(speed_real))]
               /\ meter_ackbuff' = BuildAck(cmd)
               /\ ipc_task_msgs' = send_message(ipc_task_msgs, CMD_GET_METER_INFO, 0)
               /\ meter_last' = [frame_type |-> frame_type, cmd |-> cmd, data |-> data,
                                 handled |-> TRUE]
       ELSE IF frame_type = "M2A_MOD_METER" /\ cmd = "CMD_MODMETER_SOC"
       THEN /\ lt_meter' = [lt_meter EXCEPT !.soc = data[1],
                                            !.voltage = MK_WORD(data[2], data[3]),
                                            !.current = MK_WORD(data[4], data[5]),
                                            !.voltageSystem = data[6]]
            /\ meter_ackbuff' = BuildAck(cmd)
            /\ ipc_task_msgs' = send_message(ipc_task_msgs, CMD_GET_METER_INFO, 0)
            /\ meter_last' = [frame_type |-> frame_type, cmd |-> cmd, data |-> data,
                              handled |-> TRUE]
       ELSE /\ meter_last' = [frame_type |-> frame_type, cmd |-> cmd, data |-> data,
                              handled |-> FALSE]
            /\ UNCHANGED <<lt_meter, meter_ackbuff, ipc_task_msgs>>
    /\ UNCHANGED ptl_no_ack

MeterNext ==
    \E frame_type \in FrameTypes, cmd \in MeterCmds, data \in MeterPayloads :
        meter_module_receive_handler(frame_type, cmd, data)
        /\ UNCHANGED <<poolVars, ptlVars, cbVars, rxVars, srvVars, shutVars, cliVars, sigVars, cuVars, busVars, regVars, mdlVars, tskVars, subVars, sndVars, serVars, wireVars, iterVars>>

SpecMeter == MeterInit /\ [][MeterNext]_vars

ShutInit ==
    /\ overflow_strategy \in TaskOverflowStrategy
    /\ max_queue_size \in 1..MaxQueue
    /\ task_queue = <<>>
    /\ \E n \in 1..MaxWorkers : workers = [w \in 1..n |-> [pc |-> "loop", task |-> NoTask]]
    /\ next_id = 0
    /\ ran = {}
    /\ dropped = {}
    /\ PtlIdle /\ CbIdle /\ RxIdle /\ SrvIdle /\ CarIdle /\ ShutIdle /\ CliIdle /\ SigIdle /\ CuIdle /\ BusIdle /\ RegIdle /\ MdlIdle /\ TskIdle /\ SubIdle /\ SndIdle /\ SerIdle /\ WireIdle /\ IterIdle

\* while (is_running_)
ShutLoop(w) ==
    /\ workers[w].pc = "loop"
    /\ workers' = [workers EXCEPT ![w].pc = IF is_running THEN "lock" ELSE "exit"]
    /\ UNCHANGED <<overflow_strategy, max_queue_size, task_queue, next_id, ran, dropped>>
    /\ UNCHANGED shutVars

\* The wait predicate; threads_to_terminate_ is 0 (no shrink in progress).
WaitPredicate == task_queue # <<>> \/ ~is_running

\* The worker takes queue_mutex_ (first entry or after a wake-up) and
\* task_cv_.wait evaluates its predicate.
ShutPredicate(w) ==
    /\ workers[w].pc = "lock"
    /\ queue_mutex = 0
    /\ queue_mutex' = w
    /\ workers' = [workers EXCEPT ![w].pc = IF WaitPredicate THEN "go" ELSE "check"]
    /\ UNCHANGED <<overflow_strategy, max_queue_size, task_queue, next_id, ran, dropped>>
    /\ UNCHANGED <<is_running, dtor_pc>>

\* The predicate was false: the wait releases the lock and blocks.
ShutWait(w) ==
    /\ workers[w].pc = "check"
    /\ queue_mutex' = 0
    /\ workers' = [workers EXCEPT ![w].pc = "blocked"]
    /\ UNCHANGED <<overflow_strategy, max_queue_size, task_queue, next_id, ran, dropped>>
    /\ UNCHANGED <<is_running, dtor_pc>>

\* The rest of the critical section: return on shutdown with an empty queue,
\* else move the front task out.
ShutCritical(w) ==
    /\ workers[w].pc = "go"
    /\ queue_mutex' = 0
    /\ IF ~is_running /\ task_queue = <<>>
       THEN /\ workers' = [workers EXCEPT ![w].pc = "exit"]
            /\ UNCHANGED task_queue
       ELSE /\ task_queue # <<>>
            /\ workers' = [workers EXCEPT ![w] = [pc |-> "run", task |-> Head(task_queue)]]
            /\ task_queue' = Tail(task_queue)
    /\ UNCHANGED <<overflow_strategy, max_queue_size, next_id, ran, dropped>>
    /\ UNCHANGED <<is_running, dtor_pc>>

\* task() returns; back to the while test.
ShutFinish(w) ==
    /\ workers[w].pc = "run"
    /\ ran' = ran \cup {workers[w].task.id}
    /\ workers' = [workers EXCEPT ![w] = [pc |-> "loop", task |-> NoTask]]
    /\ UNCHANGED <<overflow_strategy, max_queue_size, task_queue, next_id, dropped>>
    /\ UNCHANGED shutVars

Blocked == {w \in DOMAIN workers : workers[w].pc = "blocked"}

\* task_cv_.notify_one(): one blocked worker, if any, is woken.
NotifyOne(ws) ==
    IF Blocked = {} THEN {ws}
    ELSE {[ws EXCEPT ![w].pc = "lock"] : w \in Blocked}

\* task_cv_.notify_all(): every blocked worker is woken.
NotifyAll(ws) == [w \in DOMAIN ws |-> IF ws[w].pc = "blocked" THEN [ws[w] EXCEPT !.pc = "lock"] ELSE ws[w]]

\* enqueue on the live pool: the queue is changed under queue_mutex_, then
\* notify_one (DropNewest on a full queue returns before the notify).
ShutEnqueue ==
    /\ dtor_pc = "live"
    /\ queue_mutex = 0
    /\ next_id < MaxTasks
    /\ EnqueueEnabled(task_queue)
    /\ LET r == EnqueueResult(task_queue, dropped, PlainTask(next_id, "plain"))
       IN /\ task_queue' = r.queue
          /\ dropped' = r.dropped
          /\ workers' \in (IF next_id \in r.dropped THEN {workers} ELSE NotifyOne(workers))
    /\ next_id' = next_id + 1
    /\ UNCHANGED <<overflow_strategy, max_queue_size, ran>>
    /\ UNCHANGED shutVars

\* ~OctopusThreadPool: is_running_ = false, stored without queue_mutex_.
DtorStop ==
    /\ dtor_pc = "live"
    /\ is_running' = FALSE
    /\ dtor_pc' = "notify"
    /\ UNCHANGED poolVars
    /\ UNCHANGED queue_mutex

\* ~OctopusThreadPool: task_cv_.notify_all()
DtorNotify ==
    /\ dtor_pc = "notify"
    /\ workers' = NotifyAll(workers)
    /\ dtor_pc' = "join"
    /\ UNCHANGED <<overflow_strategy, max_queue_size, task_queue, next_id, ran, dropped>>
    /\ UNCHANGED <<is_running, queue_mutex>>

\* ~OctopusThreadPool: every join has returned.
DtorJoin ==
    /\ dtor_pc = "join"
    /\ \A w \in DOMAIN workers : workers[w].pc = "exit"
    /\ dtor_pc' = "done"
    /\ UNCHANGED poolVars
    /\ UNCHANGED <<is_running, queue_mutex>>

ShutNext ==
    \/ \E w \in DOMAIN workers : ShutLoop(w) /\ UNCHANGED <<ptlVars, cbVars, rxVars, srvVars, carVars, cliVars, sigVars, cuVars, busVars, regVars, mdlVars, tskVars, subVars, sndVars, serVars, wireVars, iterVars>>
    \/ \E w \in DOMAIN workers : ShutPredicate(w) /\ UNCHANGED <<ptlVars, cbVars, rxVars, srvVars, carVars, cliVars, sigVars, cuVars, busVars, regVars, mdlVars, tskVars, subVars, sndVars, serVars, wireVars, iterVars>>
    \/ \E w \in DOMAIN workers : ShutWait(w) /\ UNCHANGED <<ptlVars, cbVars, rxVars, srvVars, carVars, cliVars, sigVars, cuVars, busVars, regVars, mdlVars, tskVars, subVars, sndVars, serVars, wireVars, iterVars>>
    \/ \E w \in DOMAIN workers : ShutCritical(w) /\ UNCHANGED <<ptlVars, cbVars, rxVars, srvVars, carVars, cliVars, sigVars, cuVars, busVars, regVars, mdlVars, tskVars, subVars, sndVars, serVars, wireVars, iterVars>>
    \/ \E w \in DOMAIN workers : ShutFinish(w) /\ UNCHANGED <<ptlVars, cbVars, rxVars, srvVars, carVars, cliVars, sigVars, cuVars, busVars, regVars, mdlVars, tskVars, subVars, sndVars, serVars, wireVars, iterVars>>
    \/ ShutEnqueue /\ UNCHANGED <<ptlVars, cbVars, rxVars, srvVars, carVars, cliVars, sigVars, cuVars, busVars, regVars, mdlVars, tskVars, subVars, sndVars, serVars, wireVars, iterVars>>
    \/ DtorStop /\ UNCHANGED <<ptlVars, cbVars, rxVars, srvVars, carVars, cliVars, sigVars, cuVars, busVars, regVars, mdlVars, tskVars, subVars, sndVars, serVars, wireVars, iterVars>>
    \/ DtorNotify /\ UNCHANGED <<ptlVars, cbVars, rxVars, srvVars, carVars, cliVars, sigVars, cuVars, busVars, regVars, mdlVars, tskVars, subVars, sndVars, serVars, wireVars, iterVars>>
    \/ DtorJoin /\ UNCHANGED <<ptlVars, cbVars, rxVars, srvVars, carVars, cliVars, sigVars, cuVars, busVars, regVars, mdlVars, tskVars, subVars, sndVars, serVars, wireVars, iterVars>>

SpecShutdown == ShutInit /\ [][ShutNext]_vars

\* Every thread that can take a step eventually takes one.
SpecShutdownFair == SpecShutdown /\ WF_vars(ShutNext)

\* C11 as claimed: once the destructor has cleared is_running_ and notified,
\* every worker eventually leaves worker_loop and every join returns.
C11_AsClaimed == (dtor_pc = "join") ~> (dtor_pc = "done")

(***************************************************************************)
(* IPC client: receive loop and reconnection                               *)
(* cl_pc: "off" (no receiver thread), "test" (while test and descriptor    *)
(* test), "poll" (get_response_with_epoll), "reconnect", "backoff",        *)
(* "connect" (inside ipc_reconnect_to_server), "stopped"                   *)
(***************************************************************************)
\* The state ipc_app_main leaves behind once the receiver thread runs:
\* connected, or the connect failed and socket_client was set to -1.
CliInit ==
    /\ socket_running = TRUE
    /\ server_up \in BOOLEAN
    /\ socket_client = (IF server_up THEN 3 ELSE -1)
    /\ cl_link = (IF server_up THEN "connected" ELSE "none")
    /\ cl_pc = "test"
    /\ cl_outages = 0
    /\ cl_received = 0
    /\ ds_pc = "none"
    /\ waited_ms = 0
    /\ ds_result = "none"
    /\ PoolIdle /\ PtlIdle /\ CbIdle /\ RxIdle /\ SrvIdle /\ CarIdle /\ ShutIdle /\ SigIdle /\ CuIdle /\ BusIdle /\ RegIdle /\ MdlIdle /\ TskIdle /\ SubIdle /\ SndIdle /\ SerIdle /\ WireIdle /\ IterIdle

\* What get_response_with_epoll can report for the descriptor: data or a
\* timeout on a live connection, Disconnected or Error on anything else.
PollOutcomes(link) ==
    IF link = "connected" THEN {"Success", "Timeout"} ELSE {"Disconnected", "Error"}

AfterPollReconnectOnDisconnectOnly(status) ==
    IF status = "Disconnected" THEN "reconnect" ELSE "test"

\* The switch on result.status: Success falls through to the extraction and
\* the next iteration, Timeout continues, Disconnected and Error reconnect.
AfterPoll(status) ==
    IF status \in {"Disconnected", "Error"} THEN "reconnect" ELSE "test"

\* while (socket_running.load()) { if (socket_client.load() < 0) ...
ClLoop ==
    /\ cl_pc = "test"
    /\ cl_pc' = (IF ~socket_running THEN "stopped"
                 ELSE IF socket_client < 0 THEN "reconnect" ELSE "poll")
    /\ UNCHANGED <<socket_running, socket_client, cl_link, server_up, cl_outages, cl_received>>

ClPoll ==
    /\ cl_pc = "poll"
    /\ \E status \in PollOutcomes(cl_link) :
         /\ cl_pc' = AfterPoll(status)
         /\ cl_received' = (IF status = "Success" THEN Min(cl_received + 1, MaxReceived)
                            ELSE cl_received)
    /\ UNCHANGED <<socket_running, socket_client, cl_link, server_up, cl_outages>>

\* ipc_reconnect_to_server: close the old descriptor, sleep 2 s.
ClCloseOld ==
    /\ cl_pc = "reconnect"
    /\ cl_link' = (IF socket_client < 0 THEN cl_link ELSE "closed")
    /\ cl_pc' = "backoff"
    /\ UNCHANGED <<socket_running, socket_client, server_up, cl_outages, cl_received>>

\* ipc_reconnect_to_server: open_socket; on failure return with socket_client
\* still holding the closed number, else store the new descriptor.
ClReopen ==
    /\ cl_pc = "backoff"
    /\ \/ /\ socket_client' = 3
          /\ cl_link' = "open"
          /\ cl_received' = 0
          /\ cl_pc' = "connect"
          /\ UNCHANGED cl_outages
       \/ /\ cl_outages < MaxOutages
          /\ cl_outages' = cl_outages + 1
          /\ cl_pc' = "test"
          /\ UNCHANGED <<socket_client, cl_link, cl_received>>
    /\ UNCHANGED <<socket_running, server_up>>

\* ipc_reconnect_to_server: connect_to_socket; a failed connect leaves the new
\* descriptor number in socket_client (unconnected, or closed by the socket layer).
ClConnect ==
    /\ cl_pc = "connect"
    /\ IF server_up THEN cl_link' = "connected" ELSE cl_link' \in {"open", "closed"}
    /\ cl_pc' = "test"
    /\ UNCHANGED <<socket_running, socket_client, server_up, cl_outages, cl_received>>

\* The server exits or closes the connection.
ServerDown ==
    /\ server_up
    /\ cl_outages < MaxOutages
    /\ server_up' = FALSE
    /\ cl_outages' = cl_outages + 1
    /\ cl_link' = (IF cl_link = "connected" THEN "dead" ELSE cl_link)
    /\ UNCHANGED <<socket_running, socket_client, cl_pc, cl_received>>

\* The server is started (by the client's ipc_start_process_as_server or otherwise).
ServerUp ==
    /\ ~server_up
    /\ server_up' = TRUE
    /\ UNCHANGED <<socket_running, socket_client, cl_link, cl_pc, cl_outages, cl_received>>

\* constexpr int retry_interval_ms = 100, max_wait_time_ms = 10000
retry_interval_ms == 100
max_wait_time_ms == 10000

\* ipc_send_message_queue_delayed: the closure is handed to enqueue_delayed.
DsSubmit ==
    /\ ds_pc = "none"
    /\ ds_pc' = "delay"
    /\ UNCHANGED <<waited_ms, ds_result>>

\* The pool's wrapper has slept delay_ms; the closure starts with waited_ms = 0.
DsDelay ==
    /\ ds_pc = "delay"
    /\ ds_pc' = "wait"
    /\ waited_ms' = 0
    /\ UNCHANGED ds_result

\* while (socket_client.load() < 0 && waited_ms < max_wait_time_ms)
WaitsForSocket == socket_client < 0 /\ waited_ms < max_wait_time_ms

DsWait ==
    /\ ds_pc = "wait"
    /\ WaitsForSocket
    /\ waited_ms' = waited_ms + retry_interval_ms
    /\ UNCHANGED <<ds_pc, ds_result>>

\* After the loop: return without sending when socket_client is still
\* negative, else send_query on whatever socket_client holds.
DsFinish ==
    /\ ds_pc = "wait"
    /\ ~WaitsForSocket
    /\ ds_result' = (IF socket_client < 0 THEN "dropped" ELSE cl_link)
    /\ ds_pc' = "done"
    /\ UNCHANGED waited_ms

\* The task touches nothing of the connection.
DsFrame ==
    /\ UNCHANGED <<socket_running, socket_client, cl_link, cl_pc, server_up, cl_outages, cl_received>>
    /\ UNCHANGED <<poolVars, ptlVars, cbVars, rxVars, srvVars, carVars, shutVars, sigVars, cuVars, busVars, regVars, mdlVars, tskVars, subVars, sndVars, serVars, wireVars, iterVars>>

DsThread == (DsSubmit \/ DsDelay \/ DsWait \/ DsFinish) /\ DsFrame

ClThread ==
    /\ ClLoop \/ ClPoll \/ ClCloseOld \/ ClReopen \/ ClConnect
    /\ UNCHANGED dsVars
    /\ UNCHANGED <<poolVars, ptlVars, cbVars, rxVars, srvVars, carVars, shutVars, sigVars, cuVars, busVars, regVars, mdlVars, tskVars, subVars, sndVars, serVars, wireVars, iterVars>>

CliNext ==
    \/ ClLoop /\ UNCHANGED dsVars /\ UNCHANGED <<poolVars, ptlVars, cbVars, rxVars, srvVars, carVars, shutVars, sigVars, cuVars, busVars, regVars, mdlVars, tskVars, subVars, sndVars, serVars, wireVars, iterVars>>
    \/ ClPoll /\ UNCHANGED dsVars /\ UNCHANGED <<poolVars, ptlVars, cbVars, rxVars, srvVars, carVars, shutVars, sigVars, cuVars, busVars, regVars, mdlVars, tskVars, subVars, sndVars, serVars, wireVars, iterVars>>
    \/ ClCloseOld /\ UNCHANGED dsVars /\ UNCHANGED <<poolVars, ptlVars, cbVars, rxVars, srvVars, carVars, shutVars, sigVars, cuVars, busVars, regVars, mdlVars, tskVars, subVars, sndVars, serVars, wireVars, iterVars>>
    \/ ClReopen /\ UNCHANGED dsVars /\ UNCHANGED <<poolVars, ptlVars, cbVars, rxVars, srvVars, carVars, shutVars, sigVars, cuVars, busVars, regVars, mdlVars, tskVars, subVars, sndVars, serVars, wireVars, iterVars>>
    \/ ClConnect /\ UNCHANGED dsVars /\ UNCHANGED <<poolVars, ptlVars, cbVars, rxVars, srvVars, carVars, shutVars, sigVars, cuVars, busVars, regVars, mdlVars, tskVars, subVars, sndVars, serVars, wireVars, iterVars>>
    \/ ServerDown /\ UNCHANGED dsVars /\ UNCHANGED <<poolVars, ptlVars, cbVars, rxVars, srvVars, carVars, shutVars, sigVars, cuVars, busVars, regVars, mdlVars, tskVars, subVars, sndVars, serVars, wireVars, iterVars>>
    \/ ServerUp /\ UNCHANGED dsVars /\ UNCHANGED <<poolVars, ptlVars, cbVars, rxVars, srvVars, carVars, shutVars, sigVars, cuVars, busVars, regVars, mdlVars, tskVars, subVars, sndVars, serVars, wireVars, iterVars>>
    \/ DsSubmit /\ DsFrame
    \/ DsDelay /\ DsFrame
    \/ DsWait /\ DsFrame
    \/ DsFinish /\ DsFrame

\* The receiver thread is scheduled whenever it can take a step.
SpecClient == CliInit /\ [][CliNext]_vars /\ WF_vars(ClThread) /\ WF_vars(DsThread)

C13_AsClaimed == ds_result \notin {"closed", "open"}

\* C33 as claimed: whenever socket_client is non-negative it names an open
\* socket connected to the server (or one whose server end has just gone and
\* the receive loop has yet to notice); a failed reconnect attempt leaves it
\* negative.  Judged when the receiver thread is outside
\* ipc_reconnect_to_server.
C33_AsClaimed ==
    (socket_client >= 0 /\ cl_pc \in {"test", "poll"}) => cl_link \in {"connected", "dead"}

(***************************************************************************)
(* IPC server: the SET / MSG_IPC_SOCKET_CONFIG_FLAG handler on its own     *)
(***************************************************************************)
\* Identity strings a client may have set with MSG_IPC_SOCKET_CONFIG_IP.
ClientIps == {"", "octopus.ipc.app.client"}

\* Some clients accepted (descriptors handed out lowest first, flag false) and
\* some of them identified; no fan-out running.
CfgInit ==
    /\ PoolIdle /\ PtlIdle /\ CbIdle /\ RxIdle /\ CarIdle /\ ShutIdle /\ CliIdle /\ SigIdle /\ CuIdle /\ BusIdle /\ RegIdle /\ MdlIdle /\ TskIdle /\ SubIdle /\ SndIdle /\ SerIdle /\ WireIdle /\ IterIdle
    /\ \E n \in 1..MaxFds :
        /\ active_clients \in [1..n -> [flag : {FALSE}, ip : ClientIps]]
        /\ conns = [i \in 1..n |-> [fd |-> i, peer |-> "open", pc |-> "run"]]
        /\ fd_table = [fd \in 1..MaxFds |-> IF fd <= n THEN fd ELSE 0]
    /\ fo_pc = "idle"
    /\ fo_cmd = 0
    /\ fo_left = {}
    /\ fo_written = {}
    /\ fo_always = {}
    /\ fo_never = {}
    /\ srv_epipe = {}
    /\ notify_count = 0
    /\ srv_reply = [fd |-> 0, bytes |-> <<>>]

CfgNext ==
    \/ \E c \in DOMAIN conns, selector \in {0} \cup Fds, on \in BOOLEAN :
            HandleSetFlag(c, selector, on) /\ UNCHANGED <<poolVars, ptlVars, cbVars, rxVars, carVars, shutVars, cliVars, sigVars, cuVars, busVars, regVars, mdlVars, tskVars, subVars, sndVars, serVars, wireVars, iterVars>>
    \/ \E c \in DOMAIN conns : PeerClose(c) /\ UNCHANGED srv_reply /\ UNCHANGED <<poolVars, ptlVars, cbVars, rxVars, carVars, shutVars, cliVars, sigVars, cuVars, busVars, regVars, mdlVars, tskVars, subVars, sndVars, serVars, wireVars, iterVars>>
    \/ \E c \in DOMAIN conns : HandlerCleanup(c) /\ UNCHANGED srv_reply /\ UNCHANGED <<poolVars, ptlVars, cbVars, rxVars, carVars, shutVars, cliVars, sigVars, cuVars, busVars, regVars, mdlVars, tskVars, subVars, sndVars, serVars, wireVars, iterVars>>

SpecConfig == CfgInit /\ [][CfgNext]_vars

\* What the claim promises of one handled request {selector, on} of connection c.
SetFlagPost(c, selector, on) ==
    LET sender == conns[c].fd
        target == IF selector = 0 THEN sender ELSE selector
    IN /\ DOMAIN active_clients' = DOMAIN active_clients
       /\ target \in DOMAIN active_clients =>
            /\ active_clients'[target].flag = on
            /\ active_clients'[target].ip = active_clients[target].ip
       /\ \A fd \in DOMAIN active_clients \ {target} : active_clients'[fd] = active_clients[fd]
       /\ srv_reply' = [fd |-> sender, bytes |-> <<MSG_GROUP_SET>>]

SIGINT == 2

\* The server listening, its task manager running, two clients connected and
\* subscribed.
SigInit ==
    /\ PoolIdle /\ PtlIdle /\ CbIdle /\ RxIdle /\ CarIdle /\ ShutIdle /\ CliIdle /\ CuIdle /\ BusIdle /\ RegIdle /\ MdlIdle /\ TskIdle /\ SubIdle /\ SndIdle /\ SerIdle /\ WireIdle /\ IterIdle
    /\ active_clients \in [1..2 -> [flag : {TRUE}, ip : ClientIps]]
    /\ conns = [i \in 1..2 |-> [fd |-> i, peer |-> "open", pc |-> "run"]]
    /\ fd_table = [fd \in 1..MaxFds |-> IF fd <= 2 THEN fd ELSE 0]
    /\ fo_pc = "idle"
    /\ fo_cmd = 0
    /\ fo_left = {}
    /\ fo_written = {}
    /\ fo_always = {}
    /\ fo_never = {}
    /\ srv_epipe = {}
    /\ notify_count = 0
    /\ srv_reply = [fd |-> 0, bytes |-> <<>>]
    /\ listen_open = TRUE
    /\ srv_exit_status = -1
    /\ tm_running = TRUE
    /\ tm_stop_loaded \in BOOLEAN

ServerRuns == srv_exit_status = -1

\* ipc_server_signal_handler(signum): close the listening socket, call the
\* task-manager stop if it was resolved, exit(signum).  Process exit closes
\* every descriptor, which is what disconnects the clients.
ipc_server_signal_handler(signum) ==
    /\ ServerRuns
    /\ listen_open' = FALSE
    /\ tm_running' = (IF tm_stop_loaded THEN FALSE ELSE tm_running)
    /\ srv_exit_status' = signum
    /\ fd_table' = [fd \in DOMAIN fd_table |-> 0]
    /\ conns' = [c \in DOMAIN conns |-> [conns[c] EXCEPT !.pc = "done"]]
    /\ UNCHANGED <<active_clients, fo_pc, fo_cmd, fo_left, fo_written, fo_always, fo_never,
                   srv_epipe, notify_count, srv_reply, tm_stop_loaded>>

SigNext ==
    \/ ipc_server_signal_handler(SIGINT) /\ UNCHANGED <<poolVars, ptlVars, cbVars, rxVars, carVars, shutVars, cliVars, cuVars, busVars, regVars, mdlVars, tskVars, subVars, sndVars, serVars, wireVars, iterVars>>
    \/ ServerRuns /\ Accept /\ UNCHANGED srv_reply /\ UNCHANGED <<poolVars, ptlVars, cbVars, rxVars, carVars, shutVars, cliVars, sigVars, cuVars, busVars, regVars, mdlVars, tskVars, subVars, sndVars, serVars, wireVars, iterVars>>
    \/ ServerRuns /\ \E c \in DOMAIN conns : PeerClose(c) /\ UNCHANGED srv_reply /\ UNCHANGED <<poolVars, ptlVars, cbVars, rxVars, carVars, shutVars, cliVars, sigVars, cuVars, busVars, regVars, mdlVars, tskVars, subVars, sndVars, serVars, wireVars, iterVars>>
    \/ ServerRuns /\ \E c \in DOMAIN conns, selector \in {0} \cup Fds, on \in BOOLEAN :
            HandleSetFlag(c, selector, on) /\ UNCHANGED <<poolVars, ptlVars, cbVars, rxVars, carVars, shutVars, cliVars, sigVars, cuVars, busVars, regVars, mdlVars, tskVars, subVars, sndVars, serVars, wireVars, iterVars>>
    \/ ServerRuns /\ \E c \in DOMAIN conns : HandlerCleanup(c) /\ UNCHANGED srv_reply /\ UNCHANGED <<poolVars, ptlVars, cbVars, rxVars, carVars, shutVars, cliVars, sigVars, cuVars, busVars, regVars, mdlVars, tskVars, subVars, sndVars, serVars, wireVars, iterVars>>

SpecSigint == SigInit /\ [][SigNext]_vars

\* C15 as claimed: once the server has exited on SIGINT, its listening socket
\* is closed, no client descriptor is open, the task-manager stop has been
\* invoked, and the exit status is 0.
C15_AsClaimed ==
    ~ServerRuns =>
        /\ ~listen_open
        /\ \A fd \in DOMAIN fd_table : fd_table[fd] = 0
        /\ tm_stop_loaded => ~tm_running
        /\ srv_exit_status = 0

(***************************************************************************)
(* IPC client: shutdown.  ipc_signal_handler runs ipc_exit_cleanup and     *)
(* calls std::exit, which runs ipc_exit_cleanup again as a destructor.     *)
(***************************************************************************)
CuInit ==
    /\ socket_running = TRUE
    /\ server_up \in BOOLEAN
    /\ socket_client = (IF server_up THEN 3 ELSE -1)
    /\ cl_link = (IF server_up THEN "connected" ELSE "none")
    /\ cl_pc = "test"
    /\ cl_outages = 0
    /\ cl_received = 0
    /\ ds_pc = "none"
    /\ waited_ms = 0
    /\ ds_result = "none"
    /\ PoolIdle /\ PtlIdle /\ CbIdle /\ RxIdle /\ SrvIdle /\ CarIdle /\ ShutIdle /\ SigIdle /\ CuIdle /\ BusIdle /\ RegIdle /\ MdlIdle /\ TskIdle /\ SubIdle /\ SndIdle /\ SerIdle /\ WireIdle /\ IterIdle

\* ipc_exit_cleanup up to the join: atomic_exchange(&socket_running, false)
\* (its result only selects a log line, the early return is commented out),
\* then close_socket(socket_client.load()).
CleanupClose ==
    /\ cu_pc = "idle"
    /\ cleanup_runs < 2
    /\ socket_running' = FALSE
    /\ cu_close_log' = Append(cu_close_log, [fd |-> socket_client, link |-> cl_link])
    /\ cl_link' = (IF socket_client < 0 THEN cl_link ELSE "closed")
    /\ cu_pc' = "join"
    /\ UNCHANGED <<socket_client, cl_pc, server_up, cl_outages, cl_received, cleanup_runs, receiver_joined>>

\* ipc_exit_cleanup: join the receiver thread if it is joinable.
CleanupJoin ==
    /\ cu_pc = "join"
    /\ receiver_joined \/ cl_pc = "stopped"
    /\ receiver_joined' = TRUE
    /\ cu_pc' = "idle"
    /\ cleanup_runs' = cleanup_runs + 1
    /\ UNCHANGED <<socket_running, socket_client, cl_link, cl_pc, server_up, cl_outages, cl_received, cu_close_log>>

CuNext ==
    \/ ClThread
    \/ ServerDown /\ UNCHANGED dsVars /\ UNCHANGED <<poolVars, ptlVars, cbVars, rxVars, srvVars, carVars, shutVars, sigVars, cuVars, busVars, regVars, mdlVars, tskVars, subVars, sndVars, serVars, wireVars, iterVars>>
    \/ ServerUp /\ UNCHANGED dsVars /\ UNCHANGED <<poolVars, ptlVars, cbVars, rxVars, srvVars, carVars, shutVars, sigVars, cuVars, busVars, regVars, mdlVars, tskVars, subVars, sndVars, serVars, wireVars, iterVars>>
    \/ CleanupClose /\ UNCHANGED dsVars /\ UNCHANGED <<poolVars, ptlVars, cbVars, rxVars, srvVars, carVars, shutVars, sigVars, busVars, regVars, mdlVars, tskVars, subVars, sndVars, serVars, wireVars, iterVars>>
    \/ CleanupJoin /\ UNCHANGED dsVars /\ UNCHANGED <<poolVars, ptlVars, cbVars, rxVars, srvVars, carVars, shutVars, sigVars, busVars, regVars, mdlVars, tskVars, subVars, sndVars, serVars, wireVars, iterVars>>

SpecCleanup == CuInit /\ [][CuNext]_vars

\* C16 as claimed: the second run of ipc_exit_cleanup does not close the
\* socket descriptor again: it passes to close_socket no descriptor number
\* that the first run has closed and that is still closed.
C16_AsClaimed ==
    Len(cu_close_log) = 2 =>
        ~(/\ cu_close_log[2].fd >= 0
          /\ cu_close_log[2].fd = cu_close_log[1].fd
          /\ cu_close_log[2].link = "closed")

(***************************************************************************)
(* OctopusMessageBus: publish, dispatcher threads, callbacks on the pool   *)
(***************************************************************************)
BusGroups == {1, 2}
BusQueueSize == 100

\* The closure workerLoop hands to the pool: [callback, message], tagged with
\* the dispatcher that took the message and identified by message and token.
BusTask(token, message, d) ==
    [id |-> message.seq * (MaxSubscribers + 1) + token, kind |-> "bus", entry |-> CallbackEntry("", token), msg |-> NoMsg,
     message |-> message, dispatcher |-> d]

\* A bus made by OctopusMessageBus(thread_count, max_queue_size) and started:
\* a Block pool of thread_count workers, as many dispatcher threads, and
\* MaxSubscribers callbacks subscribed to group 1 (tokens from nextToken_ = 1).
BusInit ==
    /\ overflow_strategy = "Block"
    /\ max_queue_size = BusQueueSize
    /\ task_queue = <<>>
    /\ \E n \in 1..MaxWorkers :
        /\ workers = [w \in 1..n |-> [pc |-> "wait", task |-> NoTask]]
        /\ bus_disp = [d \in 1..n |-> [pc |-> "wait", message |-> [group |-> 0, seq |-> 0], left |-> {}]]
        /\ bus_last = [t \in 1..MaxSubscribers |-> [d \in 1..n |-> 0]]
    /\ next_id = 0
    /\ ran = {}
    /\ dropped = {}
    /\ subscribers_ = [g \in BusGroups |-> IF g = 1 THEN 1..MaxSubscribers ELSE {}]
    /\ messageQueue_ = <<>>
    /\ bus_published = 0
    /\ bus_calls = [t \in 1..MaxSubscribers |-> 0]
    /\ bus_inverted = FALSE
    /\ PtlIdle /\ CbIdle /\ RxIdle /\ SrvIdle /\ CarIdle /\ ShutIdle /\ CliIdle /\ SigIdle /\ CuIdle /\ RegIdle /\ MdlIdle /\ TskIdle /\ SubIdle /\ SndIdle /\ SerIdle /\ WireIdle /\ IterIdle

\* publish(message): push under queueMutex_, notify_one.
publish(group) ==
    /\ bus_published < MaxPublish
    /\ bus_published' = bus_published + 1
    /\ messageQueue_' = Append(messageQueue_, [group |-> group, seq |-> bus_published + 1])
    /\ UNCHANGED <<subscribers_, bus_disp, bus_calls, bus_last, bus_inverted>>
    /\ UNCHANGED poolVars

\* workerLoop: the wait returns with a message, which is popped; the group's
\* subscribers are looked up.
BusTake(d) ==
    /\ bus_disp[d].pc = "wait"
    /\ messageQueue_ # <<>>
    /\ LET message == Head(messageQueue_)
           subs == subscribers_[message.group]
       IN bus_disp' = [bus_disp EXCEPT ![d] =
                          [pc |-> IF subs = {} THEN "wait" ELSE "loop", message |-> message, left |-> subs]]
    /\ messageQueue_' = Tail(messageQueue_)
    /\ UNCHANGED <<subscribers_, bus_published, bus_calls, bus_last, bus_inverted>>
    /\ UNCHANGED poolVars

\* workerLoop: one turn of the loop over the group's subscribers:
\* threadPool_.enqueue of the callback closure.  The inner unordered_map is
\* walked in one fixed order, taken here as the order of the tokens.
BusEnqueue(d) ==
    /\ bus_disp[d].pc = "loop"
    /\ EnqueueEnabled(task_queue)
    /\ LET token == CHOOSE t \in bus_disp[d].left : \A u \in bus_disp[d].left : t <= u
           r == EnqueueResult(task_queue, dropped, BusTask(token, bus_disp[d].message, d))
           left == bus_disp[d].left \ {token}
       IN /\ task_queue' = r.queue
          /\ dropped' = r.dropped
          /\ bus_disp' = [bus_disp EXCEPT ![d].left = left,
                                          ![d].pc = IF left = {} THEN "wait" ELSE "loop"]
    /\ UNCHANGED <<overflow_strategy, max_queue_size, workers, next_id, ran>>
    /\ UNCHANGED <<subscribers_, messageQueue_, bus_published, bus_calls, bus_last, bus_inverted>>

\* worker_loop of the pool, outside the lock: the closure calls
\* callback(message); an exception it raises is caught and logged by
\* worker_loop, and nothing anywhere counts it.
BusRun(w) ==
    LET t == workers[w].task
        token == t.entry.cb
    IN /\ workers[w].pc = "run"
       /\ ran' = ran \cup {t.id}
       /\ workers' = [workers EXCEPT ![w] = [pc |-> "wait", task |-> NoTask]]
       /\ bus_calls' = [bus_calls EXCEPT ![token] = @ + 1]
       /\ bus_last' = [bus_last EXCEPT ![token][t.dispatcher] =
                          IF t.message.seq > @ THEN t.message.seq ELSE @]
       /\ bus_inverted' = (bus_inverted \/ t.message.seq < bus_last[token][t.dispatcher])
       /\ UNCHANGED <<overflow_strategy, max_queue_size, task_queue, next_id, dropped>>
       /\ UNCHANGED <<subscribers_, messageQueue_, bus_disp, bus_published>>

BusNext ==
    \/ \E group \in BusGroups : publish(group) /\ UNCHANGED <<ptlVars, cbVars, rxVars, srvVars, carVars, shutVars, cliVars, sigVars, cuVars, regVars, mdlVars, tskVars, subVars, sndVars, serVars, wireVars, iterVars>>
    \/ \E d \in DOMAIN bus_disp : BusTake(d) /\ UNCHANGED <<ptlVars, cbVars, rxVars, srvVars, carVars, shutVars, cliVars, sigVars, cuVars, regVars, mdlVars, tskVars, subVars, sndVars, serVars, wireVars, iterVars>>
    \/ \E d \in DOMAIN bus_disp : BusEnqueue(d) /\ UNCHANGED <<ptlVars, cbVars, rxVars, srvVars, carVars, shutVars, cliVars, sigVars, cuVars, regVars, mdlVars, tskVars, subVars, sndVars, serVars, wireVars, iterVars>>
    \/ \E w \in DOMAIN workers : WorkerTake(w) /\ UNCHANGED <<ptlVars, cbVars, rxVars, srvVars, carVars, shutVars, cliVars, sigVars, cuVars, busVars, regVars, mdlVars, tskVars, subVars, sndVars, serVars, wireVars, iterVars>>
    \/ \E w \in DOMAIN workers : BusRun(w) /\ UNCHANGED <<ptlVars, cbVars, rxVars, srvVars, carVars, shutVars, cliVars, sigVars, cuVars, regVars, mdlVars, tskVars, subVars, sndVars, serVars, wireVars, iterVars>>

SpecBus == BusInit /\ [][BusNext]_vars

\* C17 as claimed: the second subscriber, which raises on every invocation, is
\* removed once it has been invoked FAILURE_THRESHOLD times and is never
\* invoked again.
C17_AsClaimed ==
    /\ bus_calls[2] <= FAILURE_THRESHOLD
    /\ bus_calls[2] = FAILURE_THRESHOLD => 2 \notin subscribers_[1]

\* C18 as claimed: for two messages of one group taken by the same dispatcher,
\* every subscriber's callback is invoked for the earlier one first.
C18_AsClaimed == ~bus_inverted

(***************************************************************************)
(* IPC client: ipc_register_socket_callback / ipc_unregister_socket_callback*)
(***************************************************************************)
\* Any list earlier registrations can have built: the same callback may be
\* registered more than once, under one name or several.
RegLists ==
    UNION {[1..n -> {CallbackEntry(name, c) : name \in FuncNames, c \in Callbacks}] :
              n \in 0..MaxRegistered}

\* if (callback) g_named_callbacks.push_back({func_name, callback})
ipc_register_socket_callback(list, func_name, callback) ==
    IF callback # 0 THEN Append(list, CallbackEntry(func_name, callback)) ELSE list

ipc_unregister_socket_callbackLastOnly(list, callback) ==
    IF \E i \in DOMAIN list : list[i].cb = callback
    THEN LET last == CHOOSE i \in DOMAIN list :
                        list[i].cb = callback /\ \A j \in DOMAIN list : list[j].cb = callback => j <= i
         IN SubSeq(list, 1, last - 1) \o SubSeq(list, last + 1, Len(list))
    ELSE list

\* std::remove_if over the whole list by entry.cb == callback, then erase.
ipc_unregister_socket_callback(list, callback) ==
    SelectSeq(list, LAMBDA entry : entry.cb # callback)

RegInit ==
    /\ g_named_callbacks \in RegLists
    /\ cb_throws = {}
    /\ cb_calls = [c \in Callbacks |-> 0]
    /\ cb_failures = [c \in Callbacks |-> 0]
    /\ PoolIdle /\ PtlIdle /\ RxIdle /\ SrvIdle /\ CarIdle /\ ShutIdle /\ CliIdle /\ SigIdle /\ CuIdle /\ BusIdle /\ MdlIdle /\ TskIdle /\ SubIdle /\ SndIdle /\ SerIdle /\ WireIdle /\ IterIdle
    /\ RegIdle

RegRegister(func_name, callback) ==
    /\ reg_pc = "idle"
    /\ reg_prev' = g_named_callbacks
    /\ reg_cb' = callback
    /\ g_named_callbacks' = ipc_register_socket_callback(g_named_callbacks, func_name, callback)
    /\ reg_pc' = "registered"
    /\ UNCHANGED <<cb_throws, cb_calls, cb_failures>>

RegUnregister ==
    /\ reg_pc = "registered"
    /\ g_named_callbacks' = ipc_unregister_socket_callback(g_named_callbacks, reg_cb)
    /\ reg_pc' = "done"
    /\ UNCHANGED <<reg_prev, reg_cb, cb_throws, cb_calls, cb_failures>>

RegNext ==
    \/ \E func_name \in FuncNames, callback \in Callbacks \cup {0} :
            RegRegister(func_name, callback) /\ UNCHANGED <<poolVars, ptlVars, rxVars, srvVars, carVars, shutVars, cliVars, sigVars, cuVars, busVars, mdlVars, tskVars, subVars, sndVars, serVars, wireVars, iterVars>>
    \/ RegUnregister /\ UNCHANGED <<poolVars, ptlVars, rxVars, srvVars, carVars, shutVars, cliVars, sigVars, cuVars, busVars, mdlVars, tskVars, subVars, sndVars, serVars, wireVars, iterVars>>

SpecReg == RegInit /\ [][RegNext]_vars

\* C20 as claimed: a registration immediately undone leaves the callback list
\* as it was before the registration.
C20_AsClaimed == reg_pc = "done" => g_named_callbacks = reg_prev

\* C20 amended: it leaves the list as it was before with every entry of that
\* callback removed, in the order it had.
C20_Amended ==
    reg_pc = "done" =>
        g_named_callbacks = SelectSeq(reg_prev, LAMBDA entry : entry.cb # reg_cb)

\* The callback was already registered, and its earlier entry went too.
C20_Witness ==
    /\ reg_pc = "done"
    /\ reg_cb \in Registered(reg_prev)
    /\ Len(g_named_callbacks) < Len(reg_prev)

(***************************************************************************)
(* Vehicle model: the CarInfo callbacks taken statement by statement on    *)
(* the task-manager thread, and a connection worker copying a record out   *)
(* for a CAR reply.  A callback is the sequence of its stores and posts;   *)
(* the thread executes one of them per step.                               *)
(***************************************************************************)
RecNames == {"meter", "indicator", "drivinfo"}

\* The members of carinfo_indicator_t the handlers store into.
IndicatorFields ==
    <<"highBeam", "lowBeam", "position", "frontFog", "rearFog", "leftTurn", "rightTurn",
      "ready", "charge", "parking", "ecuFault", "sensorFault", "motorFault">>

MeterFields == <<"speed_real", "rpm", "speed", "soc", "voltage", "current", "voltageSystem">>

DrivinfoFields == <<"gear", "driveMode">>

SeqRange(s) == {s[i] : i \in DOMAIN s}

\* static carinfo_indicator_t lt_indicator = {0}; carinfo_drivinfo_t lt_drivinfo = {0}
IndicatorZero == [f \in SeqRange(IndicatorFields) |-> 0]
DrivinfoZero == [gear |-> 0, driveMode |-> 0]

\* static carinfo_sif_t lt_sif = {0}
SifZero ==
    [bootGuard |-> 0, hallFault |-> 0, throttleFault |-> 0, controllerFault |-> 0,
     motorFault |-> 0, gear |-> 0, brake |-> 0, current |-> 0, hallCounter |-> 0,
     voltageSystem |-> 0]

\* The record a snapshot command names, and its members in copy order.
RecOf(cmd) ==
    IF cmd = CMD_GET_INDICATOR_INFO THEN "indicator"
    ELSE IF cmd = CMD_GET_METER_INFO THEN "meter"
    ELSE "drivinfo"

CmdOf(rec) ==
    IF rec = "indicator" THEN CMD_GET_INDICATOR_INFO
    ELSE IF rec = "meter" THEN CMD_GET_METER_INFO
    ELSE CMD_GET_DRIVINFO_INFO

FieldsOf(rec) ==
    IF rec = "indicator" THEN IndicatorFields
    ELSE IF rec = "meter" THEN MeterFields
    ELSE DrivinfoFields

\* app_carinfo_get_indicator_info / _meter_info / _drivinfo_info return the
\* address of the static record: what the caller reads is the record itself.
RecordAt(rec) ==
    IF rec = "indicator" THEN lt_indicator
    ELSE IF rec = "meter" THEN lt_meter
    ELSE lt_drivinfo

\* One statement of a callback: a store into a member of a record, the store
\* of the decoded lt_sif, or a send_message to a task.
Store(rec, field, val) == [op |-> "store", rec |-> rec, field |-> field, val |-> val]
StoreSif(s) == [op |-> "sif", rec |-> "sif", field |-> "", val |-> s]
Post(dest, id, param1) == [op |-> "post", rec |-> dest, field |-> id, val |-> param1]

GetBit(byte, n) == (byte \div (2 ^ n)) % 2

\* meter_module_receive_handler, as its statements in program order.
meter_module_receive_steps(frame_type, cmd, data) ==
    IF frame_type = "M2A_MOD_METER" /\ cmd = "CMD_MODMETER_RPM_SPEED"
    THEN <<Store("meter", "speed_real", MK_WORD(data[1], data[2])),
           Store("meter", "rpm", MK_WORD(data[3], data[4])),
           Store("meter", "speed", StoreSpeed(DisplayedSpeed(MK_WORD(data[1], data[2])))),
           Post("TASK_ID_IPC_SOCKET", "MSG_DEVICE_CAR_INFOR_EVENT", CMD_GET_METER_INFO)>>
    ELSE IF frame_type = "M2A_MOD_METER" /\ cmd = "CMD_MODMETER_SOC"
    THEN <<Store("meter", "soc", data[1]),
           Store("meter", "voltage", MK_WORD(data[2], data[3])),
           Store("meter", "current", MK_WORD(data[4], data[5])),
           Store("meter", "voltageSystem", data[6]),
           Post("TASK_ID_IPC_SOCKET", "MSG_DEVICE_CAR_INFOR_EVENT", CMD_GET_METER_INFO)>>
    ELSE <<>>

\* indicator_module_receive_handler: thirteen bit stores, then the post; the
\* error-info command and A2M frames store nothing and post nothing.
indicator_module_receive_handler(frame_type, cmd, data) ==
    IF frame_type = "M2A_MOD_INDICATOR" /\ cmd = "CMD_MODINDICATOR_INDICATOR"
    THEN [i \in 1..8 |-> Store("indicator", IndicatorFields[i], GetBit(data[1], i - 1))]
         \o [i \in 1..5 |-> Store("indicator", IndicatorFields[8 + i], GetBit(data[2], i - 1))]
         \o <<Post("TASK_ID_IPC_SOCKET", "MSG_DEVICE_CAR_INFOR_EVENT", CMD_GET_INDICATOR_INFO)>>
    ELSE <<>>

\* The same handler with the notification posted ahead of the stores.
drivinfo_module_receive_handlerNotifyFirst(frame_type, cmd, data) ==
    IF frame_type = "M2A_MOD_DRIV_INFO" /\ cmd = "CMD_MODDRIVINFO_GEAR"
    THEN <<Post("TASK_ID_IPC_SOCKET", "MSG_DEVICE_CAR_INFOR_EVENT", CMD_GET_DRIVINFO_INFO),
           Store("drivinfo", "gear", data[1]),
           Store("drivinfo", "driveMode", data[2])>>
    ELSE <<>>

\* drivinfo_module_receive_handler: gear and driveMode are the first two data
\* bytes cast to their enum types, unchecked; then the post.
drivinfo_module_receive_handler(frame_type, cmd, data) ==
    IF frame_type = "M2A_MOD_DRIV_INFO" /\ cmd = "CMD_MODDRIVINFO_GEAR"
    THEN <<Store("drivinfo", "gear", data[1]),
           Store("drivinfo", "driveMode", data[2]),
           Post("TASK_ID_IPC_SOCKET", "MSG_DEVICE_CAR_INFOR_EVENT", CMD_GET_DRIVINFO_INFO)>>
    ELSE <<>>

\* The decoding of sif_buff into lt_sif (sif_buff[k] of the source is buff[k+1]).
DecodeSif(buff) ==
    [bootGuard |-> GetBit(buff[3], 1),
     hallFault |-> GetBit(buff[4], 6),
     throttleFault |-> GetBit(buff[4], 5),
     controllerFault |-> GetBit(buff[4], 4),
     motorFault |-> GetBit(buff[4], 0),
     gear |-> (GetBit(buff[5], 7) * 4) + (buff[5] % 4),
     brake |-> GetBit(buff[5], 5),
     current |-> buff[7],
     hallCounter |-> MK_WORD(buff[8], buff[9]),
     voltageSystem |-> buff[11]]

\* v * (10.0 * 3600.0 / 1000.0) for hallCounter h, truncated on the store:
\* rpm = h * 1.2, w = rpm * 2 pi / 60, v = w * 0.127.
SifSpeedReal(h) == (h * 574534) \div 1000000

\* The same times 1.1, truncated.
SifSpeed(h) == (h * 631988) \div 1000000

\* rpm + 20000 for rpm = h * 1.2, truncated.
SifRpm(h) == (h * 12) \div 10 + 20000

SifAccepted(res, buff) == res /\ buff[1] = 8 /\ buff[2] = 97

\* app_car_controller_sif_updating: nothing unless SIF_ReadData delivered a
\* frame starting 08 61; the posts go to the PTL task, and only on a change.
app_car_controller_sif_updating(res, buff) ==
    IF ~SifAccepted(res, buff) THEN <<>>
    ELSE LET s == DecodeSif(buff)
             current_speed == SifSpeedReal(s.hallCounter)
         IN <<StoreSif(s),
              Store("meter", "rpm", SifRpm(s.hallCounter)),
              Store("meter", "speed", SifSpeed(s.hallCounter)),
              Store("meter", "voltageSystem", s.voltageSystem),
              Store("meter", "current", s.current * 10)>>
            \o (IF s.gear # lt_drivinfo.gear
                THEN <<Post("TASK_ID_PTL", "M2A_MOD_DRIV_INFO", "CMD_MODDRIVINFO_GEAR")>>
                ELSE <<>>)
            \o <<Store("drivinfo", "gear", s.gear)>>
            \o (IF lt_meter.speed_real # current_speed
                THEN <<Post("TASK_ID_PTL", "M2A_MOD_METER", "CMD_MODMETER_RPM_SPEED")>>
                ELSE <<>>)
            \o <<Store("meter", "speed_real", current_speed)>>

\* app_car_controller_msg_handler with lt_sif = sif: the lamp bits from the
\* GPIO pins (active low), the fault bits from lt_sif; a post to the PTL task
\* when a MSG_DEVICE_GPIO_EVENT is waiting for the CarInfo task.
app_car_controller_msg_handler(sif, gpio, gpio_event) ==
    <<Store("indicator", "position", 1 - gpio.skd),
      Store("indicator", "highBeam", 1 - gpio.ddd),
      Store("indicator", "leftTurn", 1 - gpio.zzd),
      Store("indicator", "rightTurn", 1 - gpio.yzd),
      Store("indicator", "ready", 1 - sif.bootGuard),
      Store("indicator", "ecuFault", sif.controllerFault),
      Store("indicator", "sensorFault", sif.throttleFault),
      Store("indicator", "motorFault", IF sif.motorFault + sif.hallFault > 0 THEN 1 ELSE 0),
      Store("indicator", "parking", sif.brake)>>
    \o (IF gpio_event
        THEN <<Post("TASK_ID_PTL", "M2A_MOD_INDICATOR", "CMD_MODINDICATOR_INDICATOR")>>
        ELSE <<>>)

\* app_carinfo_running: the SIF update when the build has it, then, when the
\* build has the MCU part and 10 ms have elapsed, the message handler.
app_carinfo_running(res, buff, elapsed, gpio, gpio_event) ==
    (IF build_sif THEN app_car_controller_sif_updating(res, buff) ELSE <<>>)
    \o (IF build_mcu /\ elapsed
        THEN app_car_controller_msg_handler(
                 IF build_sif /\ SifAccepted(res, buff) THEN DecodeSif(buff) ELSE lt_sif,
                 gpio, gpio_event)
        ELSE <<>>)

\* Frames and inputs handed to the callbacks.
IndicatorPayloads == {<<d0, d1>> : d0 \in {0, 33, 255}, d1 \in {0, 31}}
DrivinfoPayloads == {<<g, m>> : g \in {0, 3, 200}, m \in {0, 1}}
SifBuffs ==
    {<<h0, 97, b2, 0, b4, 0, 5, 0, hall, 0, 2, 0>> :
        h0 \in {0, 8}, b2 \in {0, 2}, b4 \in {33, 131}, hall \in {0, 100}}
GpioPins == {[skd |-> 1, ddd |-> 1, zzd |-> 1, yzd |-> 1],
             [skd |-> 0, ddd |-> 1, zzd |-> 0, yzd |-> 1]}

MdlInit ==
    /\ PoolIdle /\ PtlIdle /\ CbIdle /\ RxIdle /\ SrvIdle /\ ShutIdle /\ CliIdle /\ SigIdle /\ CuIdle /\ BusIdle /\ RegIdle /\ TskIdle /\ SubIdle /\ SndIdle /\ SerIdle /\ WireIdle /\ IterIdle
    /\ lt_meter = MeterZero
    /\ ipc_task_msgs = <<>>
    /\ meter_ackbuff = <<>>
    /\ ptl_no_ack = TRUE
    /\ meter_last = NoFrame
    /\ meter_frames = 0
    /\ lt_indicator = IndicatorZero
    /\ lt_drivinfo = DrivinfoZero
    /\ lt_sif = SifZero
    /\ mdl_prog = <<>>
    /\ mdl_frame = <<>>
    /\ mdl_runs = 0
    /\ ptl_task_msgs = <<>>
    /\ build_sif \in BOOLEAN
    /\ build_mcu \in BOOLEAN
    /\ rd_cmd = 0
    /\ rd_left = <<>>
    /\ rd_copy = <<>>
    /\ rd_done = <<>>
    /\ mdl_complete = [r \in RecNames |->
                         IF r = "meter" THEN {MeterZero}
                         ELSE IF r = "indicator" THEN {IndicatorZero}
                         ELSE {DrivinfoZero}]
    /\ mdl_dirty = {}

\* The task-manager thread enters a callback of the CarInfo task.
MdlCall(prog, frame) ==
    /\ mdl_prog = <<>>
    /\ mdl_runs < MaxCallbacks
    /\ mdl_runs' = mdl_runs + 1
    /\ mdl_prog' = prog
    /\ mdl_frame' = frame
    /\ UNCHANGED <<lt_meter, lt_indicator, lt_drivinfo, lt_sif, ipc_task_msgs, ptl_task_msgs,
                   build_sif, build_mcu, rd_cmd, rd_left, rd_copy, rd_done, mdl_complete,
                   mdl_dirty>>

Frame(frame_type, cmd, data) == [frame_type |-> frame_type, cmd |-> cmd, data |-> data]

\* The PTL hands a parsed frame to the receive handler registered for it.
ReceiveMeter(frame_type, cmd, data) ==
    MdlCall(meter_module_receive_steps(frame_type, cmd, data), Frame(frame_type, cmd, data))

ReceiveIndicator(frame_type, cmd, data) ==
    MdlCall(indicator_module_receive_handler(frame_type, cmd, data),
            Frame(frame_type, cmd, data))

ReceiveDrivinfo(frame_type, cmd, data) ==
    MdlCall(drivinfo_module_receive_handler(frame_type, cmd, data),
            Frame(frame_type, cmd, data))

\* The scheduler invokes the run callback of the CarInfo task.
RunStep(res, buff, elapsed, gpio, gpio_event) ==
    /\ build_sif \/ build_mcu
    /\ MdlCall(app_carinfo_running(res, buff, elapsed, gpio, gpio_event), <<>>)

StoresInto(prog, rec) == \E i \in DOMAIN prog : prog[i].op = "store" /\ prog[i].rec = rec

\* The task-manager thread executes the next statement of the callback.
MdlStep ==
    /\ mdl_prog # <<>>
    /\ LET st == Head(mdl_prog)
           rest == Tail(mdl_prog)
           meter == IF st.op = "store" /\ st.rec = "meter"
                    THEN [lt_meter EXCEPT ![st.field] = st.val] ELSE lt_meter
           indicator == IF st.op = "store" /\ st.rec = "indicator"
                        THEN [lt_indicator EXCEPT ![st.field] = st.val] ELSE lt_indicator
           drivinfo == IF st.op = "store" /\ st.rec = "drivinfo"
                       THEN [lt_drivinfo EXCEPT ![st.field] = st.val] ELSE lt_drivinfo
           after == [r \in RecNames |->
                        IF r = "meter" THEN meter
                        ELSE IF r = "indicator" THEN indicator ELSE drivinfo]
           changed == {r \in RecNames : after[r] # RecordAt(r)}
           to_ipc == st.op = "post" /\ st.rec = "TASK_ID_IPC_SOCKET"
           to_ptl == st.op = "post" /\ st.rec = "TASK_ID_PTL"
       IN /\ mdl_prog' = rest
          /\ lt_meter' = meter
          /\ lt_indicator' = indicator
          /\ lt_drivinfo' = drivinfo
          /\ lt_sif' = IF st.op = "sif" THEN st.val ELSE lt_sif
          /\ ipc_task_msgs' = IF to_ipc THEN send_message(ipc_task_msgs, st.val, 0)
                              ELSE ipc_task_msgs
          /\ ptl_task_msgs' = IF to_ptl
                              THEN Append(ptl_task_msgs,
                                          [id |-> st.field, param1 |-> st.val, param2 |-> 0])
                              ELSE ptl_task_msgs
          /\ mdl_complete' = [r \in RecNames |->
                                IF st.op = "store" /\ st.rec = r /\ ~StoresInto(rest, r)
                                THEN mdl_complete[r] \cup {after[r]}
                                ELSE mdl_complete[r]]
          /\ mdl_dirty' = IF to_ipc THEN mdl_dirty \ {RecOf(st.val)}
                          ELSE mdl_dirty \cup changed
    /\ UNCHANGED <<mdl_frame, mdl_runs, build_sif, build_mcu, rd_cmd, rd_left, rd_copy, rd_done>>

\* A connection worker serves a CAR request (ipc_server_handle_car_infor) for
\* cmd: it takes the record's address from the getter ...
ReadBegin(cmd) ==
    /\ rd_cmd = 0
    /\ Len(rd_done) < MaxReads
    /\ rd_cmd' = cmd
    /\ rd_left' = FieldsOf(RecOf(cmd))
    /\ rd_copy' = <<>>
    /\ UNCHANGED <<lt_meter, lt_indicator, lt_drivinfo, lt_sif, ipc_task_msgs, ptl_task_msgs,
                   mdl_prog, mdl_frame, mdl_runs, build_sif, build_mcu, rd_done, mdl_complete,
                   mdl_dirty>>

\* ... and ipc_server_send_car_info_to_client copies sizeof(record) bytes from
\* it into data_msg.data, member after member, holding no lock.
ReadCopy ==
    /\ rd_cmd # 0
    /\ rd_left # <<>>
    /\ LET f == Head(rd_left)
           copy == [g \in DOMAIN rd_copy \cup {f} |->
                       IF g = f THEN RecordAt(RecOf(rd_cmd))[f] ELSE rd_copy[g]]
       IN IF Len(rd_left) = 1
          THEN /\ rd_done' = Append(rd_done, [cmd |-> rd_cmd, bytes |-> copy])
               /\ rd_cmd' = 0
               /\ rd_left' = <<>>
               /\ rd_copy' = <<>>
          ELSE /\ rd_copy' = copy
               /\ rd_left' = Tail(rd_left)
               /\ UNCHANGED <<rd_cmd, rd_done>>
    /\ UNCHANGED <<lt_meter, lt_indicator, lt_drivinfo, lt_sif, ipc_task_msgs, ptl_task_msgs,
                   mdl_prog, mdl_frame, mdl_runs, build_sif, build_mcu, mdl_complete, mdl_dirty>>

MdlFrame == UNCHANGED <<meter_ackbuff, ptl_no_ack, meter_last, meter_frames>>
            /\ UNCHANGED <<poolVars, ptlVars, cbVars, rxVars, srvVars, shutVars, cliVars, sigVars, cuVars, busVars, regVars, tskVars, subVars, sndVars, serVars, wireVars, iterVars>>

\* What SIF_ReadData delivers: nothing, or one of the frames.
SifReads == {<<FALSE, <<0, 0, 0, 0, 0, 0, 0, 0, 0, 0, 0, 0>> >>} \cup {<<TRUE, b>> : b \in SifBuffs}

\* The task-manager thread alone: frames of the three modules and run steps.
MdlNext ==
    \/ \E frame_type \in FrameTypes, cmd \in {"CMD_MODMETER_RPM_SPEED", "CMD_MODMETER_SOC"},
          data \in {d \in MeterPayloads : d[1] = 0} :
            ReceiveMeter(frame_type, cmd, data) /\ MdlFrame
    \/ \E frame_type \in {"A2M_MOD_INDICATOR", "M2A_MOD_INDICATOR"},
          cmd \in {"CMD_MODINDICATOR_INDICATOR", "CMD_MODINDICATOR_ERROR_INFO"},
          data \in IndicatorPayloads :
            ReceiveIndicator(frame_type, cmd, data) /\ MdlFrame
    \/ \E frame_type \in {"A2M_MOD_DRIV_INFO", "M2A_MOD_DRIV_INFO"}, data \in DrivinfoPayloads :
            ReceiveDrivinfo(frame_type, "CMD_MODDRIVINFO_GEAR", data) /\ MdlFrame
    \/ \E sif \in SifReads, elapsed \in BOOLEAN, gpio \in GpioPins, gpio_event \in BOOLEAN :
            RunStep(sif[1], sif[2], elapsed, gpio, gpio_event) /\ MdlFrame
    \/ MdlStep /\ MdlFrame

SpecModel == MdlInit /\ [][MdlNext]_vars

\* The receive handlers on the task-manager thread against a connection
\* worker serving CAR requests, in a build whose run callback does nothing.
SnapInit ==
    /\ MdlInit
    /\ ~build_sif
    /\ ~build_mcu

SnapNext ==
    \/ \E cmd \in {"CMD_MODMETER_RPM_SPEED", "CMD_MODMETER_SOC"} :
            ReceiveMeter("M2A_MOD_METER", cmd, <<0, 80, 0, 200, 0, 0>>) /\ MdlFrame
    \/ \E data \in {<<33, 0>>, <<255, 31>>} :
            ReceiveIndicator("M2A_MOD_INDICATOR", "CMD_MODINDICATOR_INDICATOR", data) /\ MdlFrame
    \/ \E data \in {<<3, 1>>, <<200, 0>>} :
            ReceiveDrivinfo("M2A_MOD_DRIV_INFO", "CMD_MODDRIVINFO_GEAR", data) /\ MdlFrame
    \/ MdlStep /\ MdlFrame
    \/ \E cmd \in NotifyCmds : ReadBegin(cmd) /\ MdlFrame
    \/ ReadCopy /\ MdlFrame

SpecSnapshot == SnapInit /\ [][SnapNext]_vars

\* C22 as claimed: a reader never observes a half-updated record: the bytes
\* of a completed copy are the record as it stood between two complete
\* updates.  Judged once the callback that ran during the copy has returned,
\* so that a copy of the record as that callback leaves it counts as whole.
C22_AsClaimed ==
    mdl_prog = <<>> =>
        \A i \in DOMAIN rd_done : rd_done[i].bytes \in mdl_complete[RecOf(rd_done[i].cmd)]

\* The record the handler of the frame being handled updates, and that
\* record holding exactly what the frame's data bytes say.
FrameRecord ==
    IF mdl_frame.frame_type = "M2A_MOD_METER" THEN "meter"
    ELSE IF mdl_frame.frame_type = "M2A_MOD_INDICATOR" THEN "indicator"
    ELSE "drivinfo"

FrameApplied ==
    LET d == mdl_frame.data
    IN IF mdl_frame.cmd = "CMD_MODMETER_RPM_SPEED"
       THEN /\ lt_meter.speed_real = d[1] * 256 + d[2]
            /\ lt_meter.rpm = d[3] * 256 + d[4]
            /\ lt_meter.speed = (lt_meter.speed_real * 11) \div 10
       ELSE IF mdl_frame.cmd = "CMD_MODMETER_SOC"
       THEN /\ lt_meter.soc = d[1]
            /\ lt_meter.voltage = d[2] * 256 + d[3]
            /\ lt_meter.current = d[4] * 256 + d[5]
            /\ lt_meter.voltageSystem = d[6]
       ELSE IF mdl_frame.cmd = "CMD_MODINDICATOR_INDICATOR"
       THEN /\ \A i \in 1..8 : lt_indicator[IndicatorFields[i]] = GetBit(d[1], i - 1)
            /\ \A i \in 1..5 : lt_indicator[IndicatorFields[8 + i]] = GetBit(d[2], i - 1)
       ELSE /\ lt_drivinfo.gear = d[1]
            /\ lt_drivinfo.driveMode = d[2]

\* C23: when a receive handler posts MSG_DEVICE_CAR_INFOR_EVENT for the M2A
\* frame it consumes, the record already holds everything the frame carries,
\* the handler stores nothing into it afterwards, and the notification names
\* that record: whoever reads the record on this notification finds the
\* update that caused it, or a later one.
C23_UpdateBeforeNotify ==
    [][Len(ipc_task_msgs') > Len(ipc_task_msgs) =>
          /\ mdl_frame # <<>>
          /\ FrameApplied'
          /\ ~StoresInto(mdl_prog', FrameRecord)
          /\ ipc_task_msgs'[Len(ipc_task_msgs')] =
                [id |-> "MSG_DEVICE_CAR_INFOR_EVENT", param1 |-> CmdOf(FrameRecord),
                 param2 |-> 0]]_vars

\* C23 witness: the drivetrain frame 03 01 was consumed, its notification is
\* posted and the record holds gear 3, drive mode 1.
C23_Witness ==
    /\ mdl_frame # <<>>
    /\ mdl_frame.frame_type = "M2A_MOD_DRIV_INFO"
    /\ mdl_frame.data = <<3, 1>>
    /\ mdl_prog = <<>>
    /\ ipc_task_msgs # <<>>
    /\ ipc_task_msgs[Len(ipc_task_msgs)].param1 = CMD_GET_DRIVINFO_INFO
    /\ lt_drivinfo = [gear |-> 3, driveMode |-> 1]

\* C27 as claimed: every mutation of a record by the CarInfo task is followed
\* by a notification to the IPC task naming the record: when a callback has
\* returned, no record it changed is left unannounced.
C27_AsClaimed ==
    mdl_prog = <<>> => mdl_dirty = {}

\* C30 as claimed: the drivetrain record's gear is in 0..7 in every
\* reachable state.
C30_AsClaimed ==
    lt_drivinfo.gear \in 0..7

(***************************************************************************)
(* Task manager: the event loop thread of octopus.c and the lifecycle of   *)
(* the CarInfo task.  task_manager_run dispatches on the task's state as   *)
(* the scheduler contract describes; the callbacks are those of            *)
(* octopus_carinfor.c, OTMS being the task's transition call.              *)
(***************************************************************************)
CarInfoKeys == {"M2A_MOD_METER", "M2A_MOD_INDICATOR", "M2A_MOD_DRIV_INFO"}

\* Invalid -> Init -> Start -> AssertRun -> Running <-> PostRun -> Stop -> Invalid
LifecycleEdges ==
    {<<"Invalid", "Init">>, <<"Init", "Start">>, <<"Start", "AssertRun">>,
     <<"AssertRun", "Running">>, <<"Running", "PostRun">>, <<"PostRun", "Running">>,
     <<"PostRun", "Stop">>, <<"Stop", "Invalid">>}

\* The task and the PTL sets as one value the callbacks transform.
TaskNow ==
    [state |-> car_state, self |-> car_self, modules |-> ptl_modules, running |-> ptl_running]

\* OTMS(TASK_ID_CAR_INFOR, new_state), called from callback cb.
OTMS(t, cb, new_state) ==
    [t EXCEPT !.state = new_state, !.self = <<cb, t.state, new_state>>]

\* ptl_register_module, ptl_reqest_running, ptl_release_running for a set of keys.
ptl_register_module(t, keys) == [t EXCEPT !.modules = @ \cup keys]
ptl_reqest_running(t, keys) == [t EXCEPT !.running = @ \cup keys]
ptl_release_running(t, keys) == [t EXCEPT !.running = @ \ keys]

app_carinfo_init_running(t) ==
    OTMS(ptl_register_module(t, CarInfoKeys), "init", "Invalid")

app_carinfo_start_running(t) == OTMS(t, "start", "AssertRun")

app_carinfo_assert_running(t) ==
    OTMS(ptl_reqest_running(t, CarInfoKeys), "assert_run", "Running")

\* A post_run that leaves the meter key in the running set.
app_carinfo_post_runningKeepsMeter(t) ==
    ptl_release_running(t, {"M2A_MOD_INDICATOR", "M2A_MOD_DRIV_INFO"})

app_carinfo_post_running(t) == ptl_release_running(t, CarInfoKeys)

app_carinfo_on_exit_post_run(t) == OTMS(t, "on_exit_post_run", "Stop")

app_carinfo_stop_running(t) == OTMS(t, "stop", "Invalid")

\* The scheduler's move after a callback; it does not count as a change the
\* task made to itself.
MoveTo(t, new_state) == [t EXCEPT !.state = new_state]

\* task_manager_run for the CarInfo task: the callback of its state, then
\* the move the scheduler contract names; leaving PostRun invokes
\* on_exit_post_run.  The run callback changes no lifecycle state.
task_manager_run(t) ==
    IF t.state = "Init" THEN MoveTo(app_carinfo_init_running(t), "Start")
    ELSE IF t.state = "Start" THEN MoveTo(app_carinfo_start_running(t), "AssertRun")
    ELSE IF t.state = "AssertRun" THEN MoveTo(app_carinfo_assert_running(t), "Running")
    ELSE IF t.state = "PostRun"
    THEN MoveTo(app_carinfo_on_exit_post_run(app_carinfo_post_running(t)), "Stop")
    ELSE IF t.state = "Stop" THEN MoveTo(app_carinfo_stop_running(t), "Invalid")
    ELSE t

\* TaskManagerStateMachineInit has run task_manager_init and
\* task_manager_start, and TaskManagerStateGoRunning has created the thread.
TskInit ==
    /\ PoolIdle /\ PtlIdle /\ CbIdle /\ RxIdle /\ SrvIdle /\ CarIdle /\ ShutIdle /\ CliIdle /\ SigIdle /\ CuIdle /\ BusIdle /\ RegIdle /\ MdlIdle /\ SubIdle /\ SndIdle /\ SerIdle /\ WireIdle /\ IterIdle
    /\ car_state = "Init"
    /\ car_self = <<>>
    /\ ptl_modules = {}
    /\ ptl_running = {}
    /\ stop_thread = FALSE
    /\ loop_pc = "created"
    /\ stop_requested = FALSE
    /\ stop_cb_since = FALSE
    /\ car_boots = 0

\* The first statement of the loop thread: stop_thread = false.
LoopStart ==
    /\ loop_pc = "created"
    /\ loop_pc' = "top"
    /\ stop_thread' = FALSE
    /\ UNCHANGED <<car_state, car_self, ptl_modules, ptl_running, stop_requested, stop_cb_since,
                   car_boots>>

\* while (!stop_thread): into the tick, or out of the loop and of the thread.
LoopTest ==
    /\ loop_pc = "top"
    /\ loop_pc' = IF stop_thread THEN "exited" ELSE "run"
    /\ UNCHANGED <<car_state, car_self, ptl_modules, ptl_running, stop_thread, stop_requested,
                   stop_cb_since, car_boots>>

\* task_manager_run()
LoopRun ==
    /\ loop_pc = "run"
    /\ loop_pc' = "sleep"
    /\ LET t == task_manager_run(TaskNow)
       IN /\ car_state' = t.state
          /\ car_self' = t.self
          /\ ptl_modules' = t.modules
          /\ ptl_running' = t.running
          /\ stop_cb_since' = (stop_cb_since \/ (stop_requested /\ car_state = "Stop"))
    /\ UNCHANGED <<stop_thread, stop_requested, car_boots>>

\* usleep(MAIN_TASK_TIMER_INTERVAL * 1000)
LoopSleep ==
    /\ loop_pc = "sleep"
    /\ loop_pc' = "top"
    /\ UNCHANGED <<car_state, car_self, ptl_modules, ptl_running, stop_thread, stop_requested,
                   stop_cb_since, car_boots>>

\* TaskManagerStateStopRunning, called from another thread.
TaskManagerStateStopRunning ==
    /\ ~stop_requested
    /\ stop_thread' = TRUE
    /\ stop_requested' = TRUE
    /\ stop_cb_since' = FALSE
    /\ UNCHANGED <<car_state, car_self, ptl_modules, ptl_running, loop_pc, car_boots>>

\* Another task moves the running CarInfo task to PostRun with the
\* transition call.
RequestPostRun ==
    /\ car_state = "Running"
    /\ loop_pc # "exited"
    /\ car_state' = "PostRun"
    /\ UNCHANGED <<car_self, ptl_modules, ptl_running, stop_thread, loop_pc, stop_requested,
                   stop_cb_since, car_boots>>

\* The stopped task is set up again.
Reinit ==
    /\ car_state = "Invalid"
    /\ loop_pc # "exited"
    /\ car_boots < MaxBoots
    /\ car_boots' = car_boots + 1
    /\ car_state' = "Init"
    /\ UNCHANGED <<car_self, ptl_modules, ptl_running, stop_thread, loop_pc, stop_requested,
                   stop_cb_since>>

TskFrame == UNCHANGED <<poolVars, ptlVars, cbVars, rxVars, srvVars, carVars, shutVars, cliVars, sigVars, cuVars, busVars, regVars, mdlVars, subVars, sndVars, serVars, wireVars, iterVars>>

TskNext ==
    \/ LoopStart /\ TskFrame
    \/ LoopTest /\ TskFrame
    \/ LoopRun /\ TskFrame
    \/ LoopSleep /\ TskFrame
    \/ TaskManagerStateStopRunning /\ TskFrame
    \/ RequestPostRun /\ TskFrame
    \/ Reinit /\ TskFrame

SpecTask == TskInit /\ [][TskNext]_vars

\* C24 as claimed: once the stop flag is set, the loop performs one final
\* pass invoking the tasks' stop callbacks before its thread exits: when the
\* thread has exited, a stop callback was invoked after the flag was set.
C24_AsClaimed ==
    loop_pc = "exited" => stop_cb_since

\* C28: the running set holds the three CarInfo keys exactly from assert_run
\* to post_run: all three while the task is Running or waiting in PostRun,
\* none in any other state; the handlers are registered from init on, and it
\* is assert_run that moves the task to Running.
C28_RunningSet ==
    /\ car_state \in {"Running", "PostRun"} => CarInfoKeys \subseteq ptl_running
    /\ car_state \notin {"Running", "PostRun"} => CarInfoKeys \cap ptl_running = {}
    /\ (car_state # "Init" \/ car_boots > 0) => CarInfoKeys \subseteq ptl_modules
    /\ car_state = "Running" => car_self = <<"assert_run", "AssertRun", "Running">>

\* C28 witness: the task has gone through assert_run and post_run: it is in
\* Stop, the handlers registered and the running set empty again.
C28_Witness ==
    /\ car_state = "Stop"
    /\ car_self = <<"on_exit_post_run", "PostRun", "Stop">>
    /\ CarInfoKeys \subseteq ptl_modules
    /\ ptl_running = {}

\* C29 as claimed: every state change the CarInfo task makes to itself
\* follows an edge of the lifecycle: init leads to Start, start to AssertRun,
\* assert_run to Running, the post-run exit to Stop, stop to Invalid.
C29_AsClaimed ==
    car_self # <<>> =>
        /\ <<car_self[2], car_self[3]>> \in LifecycleEdges
        /\ car_self[1] = "init" => car_self[3] = "Start"
        /\ car_self[1] = "start" => car_self[3] = "AssertRun"
        /\ car_self[1] = "assert_run" => car_self[3] = "Running"
        /\ car_self[1] = "on_exit_post_run" => car_self[3] = "Stop"
        /\ car_self[1] = "stop" => car_self[3] = "Invalid"

(***************************************************************************)
(* OctopusMessageBus: subscribe and unsubscribe against the dispatchers    *)
(***************************************************************************)
\* A started bus with one pool worker and one dispatcher; all tokens but the
\* last are subscribed to group 1.
SubInit ==
    /\ overflow_strategy = "Block"
    /\ max_queue_size = BusQueueSize
    /\ task_queue = <<>>
    /\ workers = [w \in 1..1 |-> [pc |-> "wait", task |-> NoTask]]
    /\ bus_disp = [d \in 1..1 |-> [pc |-> "wait", message |-> [group |-> 0, seq |-> 0], left |-> {}]]
    /\ bus_last = [t \in 1..MaxSubscribers |-> [d \in 1..1 |-> 0]]
    /\ next_id = 0
    /\ ran = {}
    /\ dropped = {}
    /\ subscribers_ = [g \in BusGroups |-> IF g = 1 THEN 1..(MaxSubscribers - 1) ELSE {}]
    /\ nextToken_ = MaxSubscribers
    /\ messageQueue_ = <<>>
    /\ bus_published = 0
    /\ bus_calls = [t \in 1..MaxSubscribers |-> 0]
    /\ bus_inverted = FALSE
    /\ PtlIdle /\ CbIdle /\ RxIdle /\ SrvIdle /\ CarIdle /\ ShutIdle /\ CliIdle /\ SigIdle /\ CuIdle /\ RegIdle /\ MdlIdle /\ TskIdle /\ SndIdle /\ SerIdle /\ WireIdle /\ IterIdle

\* workerLoop finds and walks subscribers_ holding no lock, so a subscribe or
\* unsubscribe of the walked group by another thread is a data race: the
\* token may or may not be among those the walk still visits.
WalkAfterInsert(group, token) ==
    [d \in DOMAIN bus_disp |->
        IF bus_disp[d].pc = "loop" /\ bus_disp[d].message.group = group
        THEN {bus_disp[d].left, bus_disp[d].left \cup {token}}
        ELSE {bus_disp[d].left}]

WalkAfterErase(group, token) ==
    [d \in DOMAIN bus_disp |->
        IF bus_disp[d].pc = "loop" /\ bus_disp[d].message.group = group
        THEN {bus_disp[d].left, bus_disp[d].left \ {token}}
        ELSE {bus_disp[d].left}]

\* subscribe(group, callback): under subMutex_, token = nextToken_++ and
\* subscribers_[group][token] = callback.
subscribe(group) ==
    /\ nextToken_ <= MaxSubscribers
    /\ nextToken_' = nextToken_ + 1
    /\ subscribers_' = [subscribers_ EXCEPT ![group] = @ \cup {nextToken_}]
    /\ \E left \in WalkAfterInsert(group, nextToken_)[1] :
          bus_disp' = [bus_disp EXCEPT ![1].left = left]
    /\ UNCHANGED <<messageQueue_, bus_published, bus_calls, bus_last, bus_inverted>>
    /\ UNCHANGED poolVars

\* unsubscribe(group, token): under subMutex_, erase the token from the
\* group's map if the group is there.
unsubscribe(group, token) ==
    /\ token \in subscribers_[group]
    /\ subscribers_' = [subscribers_ EXCEPT ![group] = @ \ {token}]
    /\ \E left \in WalkAfterErase(group, token)[1] :
          bus_disp' = [bus_disp EXCEPT ![1].left = left,
                                       ![1].pc = IF @ = "loop" /\ left = {} THEN "wait" ELSE @]
    /\ UNCHANGED <<messageQueue_, bus_published, bus_calls, bus_last, bus_inverted, nextToken_>>
    /\ UNCHANGED poolVars

SubFrame == UNCHANGED <<ptlVars, cbVars, rxVars, srvVars, carVars, shutVars, cliVars, sigVars, cuVars, regVars, mdlVars, tskVars, sndVars, serVars, wireVars, iterVars>>

SubNext ==
    \/ \E group \in BusGroups : publish(group) /\ UNCHANGED nextToken_ /\ SubFrame
    \/ \E d \in DOMAIN bus_disp : BusTake(d) /\ UNCHANGED nextToken_ /\ SubFrame
    \/ \E d \in DOMAIN bus_disp : BusEnqueue(d) /\ UNCHANGED nextToken_ /\ SubFrame
    \/ \E w \in DOMAIN workers : WorkerTake(w) /\ UNCHANGED busVars /\ UNCHANGED nextToken_ /\ SubFrame
    \/ \E w \in DOMAIN workers : BusRun(w) /\ UNCHANGED nextToken_ /\ SubFrame
    \/ \E group \in BusGroups : subscribe(group) /\ SubFrame
    \/ \E group \in BusGroups, token \in 1..MaxSubscribers : unsubscribe(group, token) /\ SubFrame

SpecBusSub == SubInit /\ [][SubNext]_vars

\* C25 as claimed: the subscriber map is accessed only under its mutex: while
\* a dispatcher is inside its walk over a group's subscribers, no subscribe
\* or unsubscribe changes the map.
C25_AsClaimed ==
    [][(\E d \in DOMAIN bus_disp : bus_disp[d].pc = "loop") => subscribers_' = subscribers_]_vars

\* C40 as claimed: after unsubscribe(group, token) has returned the removed
\* callback is never invoked again, not even by a task that was queued in
\* the pool before the removal: whenever a pool worker takes a callback task
\* from the queue and starts it, the task's token is subscribed.
C40_AsClaimed ==
    [][\A w \in DOMAIN workers :
          (workers[w].pc = "wait" /\ workers'[w].pc = "run") =>
              \E group \in BusGroups : workers'[w].task.entry.cb \in subscribers_[group]]_vars

(***************************************************************************)
(* Socket::send_buff called under server_mutex                             *)
(***************************************************************************)
\* The threads that send: the task-manager thread (fan-out) and a connection
\* worker.
Senders == 1..MaxSenders

SndInit ==
    /\ server_mutex = 0
    /\ sb = [s \in Senders |-> [pc |-> "idle", client_fd |-> 0, length |-> 0, total_sent |-> 0, ret |-> 0]]
    /\ peer_rx = [fd \in Fds |-> "reading"]
    /\ PoolIdle /\ PtlIdle /\ CbIdle /\ RxIdle /\ SrvIdle /\ CarIdle /\ ShutIdle /\ CliIdle /\ SigIdle /\ CuIdle /\ BusIdle /\ RegIdle /\ MdlIdle /\ TskIdle /\ SubIdle /\ SerIdle /\ WireIdle /\ IterIdle

SndFrame == UNCHANGED <<poolVars, ptlVars, cbVars, rxVars, srvVars, carVars, shutVars, cliVars, sigVars, cuVars, busVars, regVars, mdlVars, tskVars, subVars, serVars, wireVars, iterVars>>

\* ipc_server_send_car_info_to_client: lock_guard on server_mutex, then
\* server.send_buff(client_fd, buffer, data_size) starts with total_sent = 0.
SendCall(s, fd, length) ==
    /\ sb[s].pc = "idle"
    /\ server_mutex = 0
    /\ server_mutex' = s
    /\ sb' = [sb EXCEPT ![s] = [pc |-> "write", client_fd |-> fd, length |-> length, total_sent |-> 0, ret |-> 0]]
    /\ UNCHANGED peer_rx

\* send_buff returns ret; the lock_guard's scope ends.
SendReturn(s, ret) ==
    /\ server_mutex' = 0
    /\ sb' = [sb EXCEPT ![s].pc = "idle", ![s].ret = ret]

\* write() accepts n bytes: total_sent += write_result; the loop ends with
\* return 0 when total_sent reaches length.
WriteSome(s, n) ==
    /\ sb[s].pc = "write"
    /\ peer_rx[sb[s].client_fd] = "reading"
    /\ n \in 1..(sb[s].length - sb[s].total_sent)
    /\ IF sb[s].total_sent + n = sb[s].length
       THEN /\ server_mutex' = 0
            /\ sb' = [sb EXCEPT ![s].pc = "idle", ![s].ret = 0, ![s].total_sent = @ + n]
       ELSE /\ sb' = [sb EXCEPT ![s].total_sent = @ + n]
            /\ UNCHANGED server_mutex
    /\ UNCHANGED peer_rx

\* write() fails with EAGAIN / EWOULDBLOCK: sleep_for(10 ms), then continue.
WriteEagain(s) ==
    /\ sb[s].pc = "write"
    /\ peer_rx[sb[s].client_fd] = "stalled"
    /\ sb' = [sb EXCEPT ![s].pc = "backoff"]
    /\ UNCHANGED <<server_mutex, peer_rx>>

\* The back-off sleep is over: the loop tests total_sent < length and writes
\* again.
BackoffEnd(s) ==
    /\ sb[s].pc = "backoff"
    /\ sb' = [sb EXCEPT ![s].pc = "write"]
    /\ UNCHANGED <<server_mutex, peer_rx>>

\* write() fails with EPIPE / ECONNRESET: close(client_fd); return -1.
WriteEpipe(s) ==
    /\ sb[s].pc = "write"
    /\ peer_rx[sb[s].client_fd] = "closed"
    /\ peer_rx' = [peer_rx EXCEPT ![sb[s].client_fd] = "bad"]
    /\ SendReturn(s, -1)

\* write() fails with another error (EBADF on a closed descriptor): return -1.
WriteError(s) ==
    /\ sb[s].pc = "write"
    /\ peer_rx[sb[s].client_fd] = "bad"
    /\ SendReturn(s, -1)
    /\ UNCHANGED peer_rx

\* The client process stops or resumes reading its socket, or closes it.
PeerBehaves(fd, how) ==
    /\ peer_rx[fd] \in {"reading", "stalled"}
    /\ peer_rx[fd] # how
    /\ peer_rx' = [peer_rx EXCEPT ![fd] = how]
    /\ UNCHANGED <<server_mutex, sb>>

SendStep(s) ==
    \/ \E n \in 1..MaxSendLen : WriteSome(s, n)
    \/ WriteEagain(s)
    \/ BackoffEnd(s)
    \/ WriteEpipe(s)
    \/ WriteError(s)

SndNext ==
    \/ \E s \in Senders, fd \in Fds, length \in 1..MaxSendLen : SendCall(s, fd, length) /\ SndFrame
    \/ \E s \in Senders, n \in 1..MaxSendLen : WriteSome(s, n) /\ SndFrame
    \/ \E s \in Senders : WriteEagain(s) /\ SndFrame
    \/ \E s \in Senders : BackoffEnd(s) /\ SndFrame
    \/ \E s \in Senders : WriteEpipe(s) /\ SndFrame
    \/ \E s \in Senders : WriteError(s) /\ SndFrame
    \/ \E fd \in Fds, how \in {"reading", "stalled", "closed"} : PeerBehaves(fd, how) /\ SndFrame

\* A thread inside send_buff keeps running; nothing obliges a client to read.
SpecSendFair ==
    /\ SndInit
    /\ [][SndNext]_vars
    /\ \A s \in Senders : WF_vars(SendStep(s) /\ SndFrame)

\* C31 as claimed: a write that keeps failing with EAGAIN is given up after a
\* bounded number of retries, so send_buff returns and server_mutex, taken
\* for the call, is released again.
C31_AsClaimed == (server_mutex # 0) ~> (server_mutex = 0)

(***************************************************************************)
(* SerialPort: readLoop against closePort                                  *)
(***************************************************************************)
\* After openPort: both descriptors open, isRunning = true, readThread
\* started on readLoop.
SerInit ==
    /\ isRunning = TRUE
    /\ serial_open = TRUE
    /\ rl_pc = "head"
    /\ cp_pc = "idle"
    /\ ser_pending = 0
    /\ ser_sent = 0
    /\ ser_calls = <<>>
    /\ PoolIdle /\ PtlIdle /\ CbIdle /\ RxIdle /\ SrvIdle /\ CarIdle /\ ShutIdle /\ CliIdle /\ SigIdle /\ CuIdle /\ BusIdle /\ RegIdle /\ MdlIdle /\ TskIdle /\ SubIdle /\ SndIdle /\ WireIdle /\ IterIdle

SerFrame == UNCHANGED <<poolVars, ptlVars, cbVars, rxVars, srvVars, carVars, shutVars, cliVars, sigVars, cuVars, busVars, regVars, mdlVars, tskVars, subVars, sndVars, wireVars, iterVars>>

\* The device on the line sends n bytes.
DeviceSends(n) ==
    /\ ser_sent + n <= MaxSerialBytes
    /\ ser_sent' = ser_sent + n
    /\ ser_pending' = ser_pending + n
    /\ UNCHANGED <<isRunning, serial_open, rl_pc, cp_pc, ser_calls>>

\* while (isRunning): into epoll_wait, or out of the loop.
LoopHead ==
    /\ rl_pc = "head"
    /\ rl_pc' = IF isRunning THEN "wait" ELSE "exited"
    /\ UNCHANGED <<isRunning, serial_open, cp_pc, ser_pending, ser_sent, ser_calls>>

\* epoll_wait(epollFd, events, 1, -1) returns only when serialFd is readable:
\* the timeout argument is -1.
EpollReady ==
    /\ rl_pc = "wait"
    /\ ser_pending > 0
    /\ rl_pc' = "read"
    /\ UNCHANGED <<isRunning, serial_open, cp_pc, ser_pending, ser_sent, ser_calls>>

\* A signal interrupts epoll_wait (EINTR): continue.
EpollEintr ==
    /\ rl_pc = "wait"
    /\ rl_pc' = "head"
    /\ UNCHANGED <<isRunning, serial_open, cp_pc, ser_pending, ser_sent, ser_calls>>

\* read(serialFd, buffer, 512) and dataCallback(buffer, bytesRead).
ReadBytes ==
    /\ rl_pc = "read"
    /\ ser_calls' = Append(ser_calls, ser_pending)
    /\ ser_pending' = 0
    /\ rl_pc' = "head"
    /\ UNCHANGED <<isRunning, serial_open, cp_pc, ser_sent>>

\* closePort: if (isRunning) { isRunning = false; readThread.join(); ...
ClosePortBegin ==
    /\ cp_pc = "idle"
    /\ isRunning
    /\ isRunning' = FALSE
    /\ cp_pc' = "join"
    /\ UNCHANGED <<serial_open, rl_pc, ser_pending, ser_sent, ser_calls>>

\* ... the join returns once readLoop has returned; then both descriptors
\* are closed.
ClosePortJoined ==
    /\ cp_pc = "join"
    /\ rl_pc = "exited"
    /\ cp_pc' = "done"
    /\ serial_open' = FALSE
    /\ UNCHANGED <<isRunning, rl_pc, ser_pending, ser_sent, ser_calls>>

\* The steps the two threads of the program take by themselves.
SerThreads == LoopHead \/ EpollReady \/ ReadBytes \/ ClosePortJoined

SerNext ==
    \/ \E n \in 1..MaxSerialBytes : DeviceSends(n) /\ SerFrame
    \/ LoopHead /\ SerFrame
    \/ EpollReady /\ SerFrame
    \/ EpollEintr /\ SerFrame
    \/ ReadBytes /\ SerFrame
    \/ ClosePortBegin /\ SerFrame
    \/ ClosePortJoined /\ SerFrame

\* Both threads keep running; the device need not send and no signal need
\* arrive.
SpecSerialFair ==
    /\ SerInit
    /\ [][SerNext]_vars
    /\ WF_vars(SerThreads /\ SerFrame)

\* C32 as claimed: closing the serial transport terminates: once closePort
\* has cleared the running flag and waits in join, the receive thread leaves
\* its wait, sees the flag and exits, and the join returns.
C32_AsClaimed == (cp_pc = "join") ~> (cp_pc = "done")

(***************************************************************************)
(* IPC client API frames and their handling by a connection worker         *)
(***************************************************************************)
MSG_GROUP_CAR == 11
MSG_IPC_SOCKET_CONFIG_FLAG == 50

WireGroups == {MSG_GROUP_SET, MSG_GROUP_CAR}
WireMsgs == {MSG_IPC_SOCKET_CONFIG_FLAG, CMD_GET_METER_INFO}
WirePayloads == {<<>>, <<0, 1>>, <<0, 0>>}

\* ipc_app_send_query: group, msg, data and length = data.size() are set.
ipc_app_send_query(group, msg, query_array) ==
    serializeMessage([DefaultMessage EXCEPT !.group = group, !.msg = msg,
                                            !.data = query_array, !.length = Len(query_array)])

ipc_app_send_commandSetsLength(group, msg, parameters) ==
    ipc_app_send_query(group, msg, parameters)

\* ipc_app_send_command: group, msg and data are set; length keeps the value
\* the default constructor gave it.
ipc_app_send_command(group, msg, parameters) ==
    serializeMessage([DefaultMessage EXCEPT !.group = group, !.msg = msg, !.data = parameters])

\* ipc_start_request_push_data(true)
ipc_start_request_push_data ==
    ipc_app_send_command(MSG_GROUP_SET, MSG_IPC_SOCKET_CONFIG_FLAG, <<0, 1>>)

\* ipc_send_message and the queued sends serialize the caller's message, built
\* with DataMessage(group, msg, data_array).
ipc_send_message(group, msg, data_array) ==
    serializeMessage([header |-> HEADER, group |-> group, msg |-> msg,
                      length |-> Len(data_array), data |-> data_array])

\* LENGTH equals the number of payload bytes that follow it.
FrameWellFormed(bytes) ==
    /\ Len(bytes) >= get_base_length
    /\ bytes[1] * 256 + bytes[2] = HEADER
    /\ bytes[5] * 256 + bytes[6] = Len(bytes) - get_base_length

WireInit ==
    /\ wr_sent = <<>>
    /\ wr_stream = <<>>
    /\ wr_handled = <<>>
    /\ wr_flag = FALSE
    /\ PoolIdle /\ PtlIdle /\ CbIdle /\ RxIdle /\ SrvIdle /\ CarIdle /\ ShutIdle /\ CliIdle /\ SigIdle /\ CuIdle /\ BusIdle /\ RegIdle /\ MdlIdle /\ TskIdle /\ SubIdle /\ SndIdle /\ SerIdle /\ IterIdle

WireFrame == UNCHANGED <<poolVars, ptlVars, cbVars, rxVars, srvVars, carVars, shutVars, cliVars, sigVars, cuVars, busVars, regVars, mdlVars, tskVars, subVars, sndVars, serVars, iterVars>>

\* client.send_query(socket_client, serialized_data): the frame goes onto the
\* stream.
WireWrite(call, bytes) ==
    /\ Len(wr_sent) < MaxWrites
    /\ wr_sent' = Append(wr_sent, [call |-> call, bytes |-> bytes])
    /\ wr_stream' = wr_stream \o bytes
    /\ UNCHANGED <<wr_handled, wr_flag>>

\* ipc_server_handle_config for MSG_IPC_SOCKET_CONFIG_FLAG on the sender's own
\* entry: is_active = data.size() >= 2 && data[1] > 0.
ConfigFlagOf(m) == Len(m.data) >= 2 /\ m.data[2] > 0

\* One iteration of ipc_server_handle_client: get_query returns the n bytes
\* of one read(); they are deserialized as one message, which is skipped
\* when invalid and dispatched by group otherwise.
ServerRead(n) ==
    LET data == SubSeq(wr_stream, 1, n)
        query_msg == deserializeMessage(data)
    IN /\ n \in 1..Len(wr_stream)
       /\ wr_stream' = SubSeq(wr_stream, n + 1, Len(wr_stream))
       /\ IF isValid(query_msg)
          THEN /\ wr_handled' = Append(wr_handled, query_msg)
               /\ wr_flag' = IF /\ query_msg.group = MSG_GROUP_SET
                                /\ query_msg.msg = MSG_IPC_SOCKET_CONFIG_FLAG
                                /\ (query_msg.data = <<>> \/ query_msg.data[1] <= 0)
                             THEN ConfigFlagOf(query_msg)
                             ELSE wr_flag
          ELSE UNCHANGED <<wr_handled, wr_flag>>
       /\ UNCHANGED wr_sent

WireNext ==
    \/ \E group \in WireGroups, msg \in WireMsgs, d \in WirePayloads :
          WireWrite("ipc_app_send_query", ipc_app_send_query(group, msg, d)) /\ WireFrame
    \/ \E group \in WireGroups, msg \in WireMsgs, d \in WirePayloads :
          WireWrite("ipc_app_send_command", ipc_app_send_command(group, msg, d)) /\ WireFrame
    \/ \E group \in WireGroups, msg \in WireMsgs, d \in WirePayloads :
          WireWrite("ipc_send_message", ipc_send_message(group, msg, d)) /\ WireFrame
    \/ WireWrite("ipc_start_request_push_data", ipc_start_request_push_data) /\ WireFrame
    \/ \E n \in 1..(MaxWrites * (get_base_length + 2)) : ServerRead(n) /\ WireFrame

SpecWire == WireInit /\ [][WireNext]_vars

\* C34 as claimed: every frame the client API writes is well-formed, LENGTH
\* being the number of payload bytes that follow; and once the server has
\* handled the request of ipc_start_request_push_data(true), arrived in one
\* read, the client's subscription flag is set.
C34_AsClaimed ==
    /\ \A i \in DOMAIN wr_sent : FrameWellFormed(wr_sent[i].bytes)
    /\ ( /\ Len(wr_sent) = 1
         /\ wr_sent[1].call = "ipc_start_request_push_data"
         /\ wr_stream = <<>>
         /\ wr_handled # <<>> ) => wr_flag

\* The messages the client wrote, as their frames decode.
WrittenMessages == [i \in DOMAIN wr_sent |-> deserializeMessage(wr_sent[i].bytes)]

\* C38 as claimed: every well-formed message a client writes is dispatched
\* to its group handler exactly once, however the stream is delivered: when
\* the worker has read everything the client wrote, all of it well-formed,
\* the dispatched messages are the written ones, in order.
C38_AsClaimed ==
    (wr_stream = <<>> /\ \A i \in DOMAIN wr_sent : FrameWellFormed(wr_sent[i].bytes)) =>
        wr_handled = WrittenMessages

(***************************************************************************)
(* IPC client: the dispatched messages against the split into reads        *)
(***************************************************************************)
\* The extraction loop run on a buffer holding the whole stream: the messages
\* it dispatches, at most fuel of them.
RECURSIVE ExtractLoop(_, _, _)
ExtractLoop(buffer, query_msg, fuel) ==
    IF fuel = 0 \/ Len(buffer) < get_base_length
    THEN <<>>
    ELSE LET r == ipc_check_complete_data_packet(buffer, query_msg)
         IN IF isValid(r.msg)
            THEN <<r.msg>> \o ExtractLoop(r.buffer, r.msg, fuel - 1)
            ELSE <<>>

OneReadDispatch(bytes) == ExtractLoop(bytes, DefaultMessage, MaxDispatch)

\* C36 as claimed: the messages the client dispatches depend only on the
\* received bytes and not on their split into reads: when everything was
\* read and the loop has returned, the dispatched messages are those that one
\* read of the whole stream yields.
C36_AsClaimed ==
    (rx_pending = <<>> /\ rx_pc = "read") =>
        rx_dispatched = OneReadDispatch(StreamBytes(rx_stream))

(***************************************************************************)
(* IPC client: termination of the extraction loop                          *)
(***************************************************************************)
\* An iteration that dispatches once MaxDispatch dispatches are on record:
\* the loop goes on as before, the dispatch is no longer recorded.
RxExtractUnrecorded ==
    LET r == ipc_check_complete_data_packet(rx_buffer, rx_query_msg)
    IN /\ rx_pc = "extract"
       /\ Len(rx_buffer) >= get_base_length
       /\ isValid(r.msg)
       /\ Len(rx_dispatched) >= MaxDispatch
       /\ rx_buffer' = r.buffer
       /\ rx_query_msg' = r.msg
       /\ UNCHANGED <<rx_pc, rx_dispatched, rx_pending, rx_reads, rx_stream>>
       /\ UNCHANGED poolVars

\* One pass through while (buffer.size() >= query_msg.get_base_length()).
RxIterate ==
    /\ rx_iter' = ~rx_iter
    /\ RxExtract \/ RxExtractUnrecorded
    /\ UNCHANGED <<ptlVars, cbVars, srvVars, carVars, shutVars, cliVars, sigVars, cuVars, busVars, regVars, mdlVars, tskVars, subVars, sndVars, serVars, wireVars>>

RxFairNext ==
    \/ \E n \in {Len(rx_pending), RxChunk} : RxRead(n) /\ UNCHANGED <<poolVars, ptlVars, cbVars, srvVars, carVars, shutVars, cliVars, sigVars, cuVars, busVars, regVars, mdlVars, tskVars, subVars, sndVars, serVars, wireVars, iterVars>>
    \/ RxIterate
    \/ \E w \in DOMAIN workers : WorkerTake(w) /\ UNCHANGED <<ptlVars, cbVars, rxVars, srvVars, carVars, shutVars, cliVars, sigVars, cuVars, busVars, regVars, mdlVars, tskVars, subVars, sndVars, serVars, wireVars, iterVars>>
    \/ \E w \in DOMAIN workers : WorkerFinish(w) /\ UNCHANGED <<ptlVars, rxVars, srvVars, carVars, shutVars, cliVars, sigVars, cuVars, busVars, regVars, mdlVars, tskVars, subVars, sndVars, serVars, wireVars, iterVars>>

\* The streams with no junk or two junk bytes in front.
RxFairInit == RxInit /\ rx_stream.junk \in {0, 2}

\* The receiver thread keeps running.
SpecRxFair == RxFairInit /\ [][RxFairNext]_vars /\ WF_vars(RxIterate)

\* C35 as claimed: the extraction loop terminates for every buffer content:
\* once entered, it stops after finitely many iterations and control returns
\* to reading the socket.
C35_AsClaimed == (rx_pc = "extract") ~> (rx_pc = "read")

(***************************************************************************)
(* Task manager: a stop request against the start of the loop thread       *)
(***************************************************************************)
\* The steps of the scheduler thread.
LoopThread == LoopStart \/ LoopTest \/ LoopRun \/ LoopSleep

\* The scheduler thread, once created, keeps running.
SpecTaskFair == TskInit /\ [][TskNext]_vars /\ WF_vars(LoopThread /\ TskFrame)

\* C39 as claimed: a stop request is never lost: if
\* TaskManagerStateStopRunning is called at any time after the thread was
\* created, the scheduler loop eventually exits.
C39_AsClaimed == stop_requested ~> (loop_pc = "exited")

====
